---- MODULE Spec2Model ----
(***************************************************************************)
(* Workload lifecycle of pkg/instance (Instance) and the service helpers   *)
(* of pkg/k8s, as a state machine.  One action per exported method; every  *)
(* action records the call it models and the error it returns in `call'.   *)
(***************************************************************************)
EXTENDS Integers, Sequences, FiniteSets, TLC

\* ------------------------------------------------------------------ bounds
\* Instances that can exist in one run (user-created and auto-injected).
MaxInst == 3
\* Instances the caller constructs in a run of Spec, where every setter is offered.
MaxDescribed == 1
\* Successful descriptor mutations (setters, appends) in one run.
MaxMut == 1
\* Successful descriptor mutations in one run of SpecPorts (port registrations).
MaxPorts == 2
\* Successful descriptor mutations in one run of SpecStorage (volumes and files).
MaxStorage == 3
\* Distinct content hashes a changed build context can produce.
MaxHash == 2

\* Ticker periods a wait is followed beyond the deadline of WaitInstanceIsRunning.
MaxLate == 2
\* Polls a WaitInstanceIsStopped is followed for.
MaxPolls == 3
\* Ports in each list handed to CreateService and PatchService.
MaxServicePorts == 2

\* ---------------------------------------------------------------- constants
\* Deadline of WaitInstanceIsRunning in ticker periods (1 minute of 1-second ticks).
WaitDeadline == 60
\* Tunnel attempts PortForwardTCP makes at most.
maxRetries == 5

\* --------------------------------------------------------------- variables
VARIABLES
    instances,    \* id -> Instance struct (slots above nInst are not constructed yet)
    nInst,        \* number of constructed instances; ids are 1..nInst
    imageCache,   \* process-wide map: content hash -> pushed image name ("" = absent)
    replicaSets,  \* ids whose compute unit is deployed in the cluster
    resources,    \* ids whose supporting resources are deployed in the cluster
    call,         \* the last call: the method and the error it returned ("nil" = success)
    nMut,         \* successful descriptor mutations the run still follows
    fx,           \* requests the last call made to its collaborators (see NoFx)
    pc,           \* id -> position of a Commit running step by step, with its local hash
    pushes,       \* content hash -> number of PushBuilderImage calls made for it
    wait,         \* the readiness wait in progress (WaitInstanceIsRunning, WaitForService)
    shaping,      \* id -> shaping modes its fault-injection client started and has not stopped
    netPolicies   \* ids that have a network policy in the cluster

vars == <<instances, nInst, imageCache, replicaSets, resources, call, nMut,
          fx, pc, pushes, wait, shaping, netPolicies>>

Ids == 1..MaxInst
Hashes == 1..MaxHash

\* ------------------------------------------------------------ input domains
Images == {"nginx:alpine"}
Commands == {<<"sh">>}
Args == {<<"-c">>}
PortInputs == {0, 80, 443}
Quantities == {"100m"}
EnvKeys == {"K"}
EnvValues == {"x", "y"}
PolicyRules == {"rule"}
Probes == {"probe"}
Capabilities == {"NET_ADMIN"}
CapabilityLists == {<<>>, <<"NET_ADMIN">>, <<"NET_ADMIN", "SYS_TIME">>}
VolumePaths == {"/data"}
VolumeSizes == {"1Gi"}
Owners == {0, 1}
\* dest of AddFile: a directory and a file name in it.
Dests == {[dir |-> "/data", name |-> "a"], [dir |-> "/etc", name |-> "a"]}
\* chown of AddFile, as strings.Split(chown, ":") cuts it.
Chowns == {<<"1000", "0">>, <<"1000", "1">>, <<"1000", "2">>, <<"1000", "g">>, <<"1000">>}
ObsyPorts == {8888}
\* What K8sCli.GetService answers: an error, or a Service with this Spec.ClusterIP.
ServiceAnswers == {"error", "", "10.0.0.1", "10.0.0.2"}

OtelCollectorImage == "otel/opentelemetry-collector-contrib"
BitTwisterImage == "ghcr.io/celestiaorg/bittwister"

\* ------------------------------------------------------------------ helpers
\* Instance struct as New() fills it.
NewInstance ==
    [ state          |-> "None",
      imageName      |-> "",
      builderImage   |-> "",      \* builderFactory: base image ("" = nil factory)
      builderHash    |-> 0,       \* builderFactory: 0 = context unchanged, else its content hash
      portsTCP       |-> <<>>,
      portsUDP       |-> <<>>,
      command        |-> <<>>,
      args           |-> <<>>,
      env            |-> {},
      volumes        |-> <<>>,
      files          |-> <<>>,    \* each with the group of the AddFile that recorded it
      fsGroup        |-> 0,
      kubernetesService |-> "nil", \* the cached Service, by its Spec.ClusterIP ("nil": none)
      memoryRequest  |-> "",
      memoryLimit    |-> "",
      cpuRequest     |-> "",
      policyRules    |-> <<>>,
      livenessProbe  |-> "nil",
      readinessProbe |-> "nil",
      startupProbe   |-> "nil",
      isSidecar      |-> FALSE,
      parentInstance |-> 0,
      sidecars       |-> <<>>,
      otlpPort       |-> 0,
      privileged     |-> FALSE,
      capabilitiesAdd |-> <<>>,
      btEnabled      |-> FALSE ]

IsInState(i, states) == instances[i].state \in states

Range(s) == {s[k] : k \in 1..Len(s)}

\* Errors built with WithParams(i.state.String()): the state-violation class.
StateViolationErrs ==
    { "ErrSettingImageNotAllowed", "ErrSettingGitRepo",
      "ErrSettingImageNotAllowedForSidecarsStarted",
      "ErrSettingCommand", "ErrSettingArgsNotAllowed", "ErrAddingPortNotAllowed",
      "ErrCommittingNotAllowed", "ErrAddingVolumeNotAllowed",
      "ErrSettingMemoryNotAllowed", "ErrSettingCPUNotAllowed", "ErrSettingEnvNotAllowed",
      "ErrAddingPolicyRuleNotAllowed", "ErrSettingProbeNotAllowed",
      "ErrAddingSidecarNotAllowed", "ErrSettingNotAllowed",
      "ErrSettingPrivilegedNotAllowed", "ErrAddingCapabilityNotAllowed",
      "ErrAddingCapabilitiesNotAllowed", "ErrStartingNotAllowed",
      "ErrStoppingNotAllowed",
      "ErrRandomPortForwardingNotAllowed", "ErrExecutingCommandNotAllowed",
      "ErrGettingFileNotAllowed", "ErrWaitingForInstanceNotAllowed",
      "ErrDisablingNetworkNotAllowed", "ErrSettingBandwidthLimitNotAllowed",
      "ErrSettingLatencyJitterNotAllowed", "ErrSettingPacketLossNotAllowed",
      "ErrEnablingNetworkNotAllowed", "ErrCheckingIfNetworkDisabledNotAllowed",
      "ErrAddingFileNotAllowed", "ErrWaitingForInstanceStoppedNotAllowed",
      "ErrCloningNotAllowed", "ErrCloningNotAllowedForSidecar" }

\* Requests a call makes to its collaborators: tunnel attempts (PortForwardPod), sleeps
\* between them, other cluster calls, build-context calls, and stop / start requests on
\* the fault-injection client; port is the remote port of the tunnel requests (0: none);
\* svcCreates and svcUpdates count the Services().Create and Services().Update requests of
\* the call, svc is the Service it submitted and cause the error it wrapped;
\* created counts the cluster objects the call created, cache its accesses to imageCache;
\* ip is the address the call returns ("": none);
\* value is the number the call returns beside its error; btStop is the answer to the
\* stop request ("none": no stop request was made).
NoFx == [tunnels |-> 0, sleeps |-> 0, port |-> 0, cluster |-> 0, builder |-> 0,
         btStops |-> 0, btStarts |-> 0, btStop |-> "none", created |-> 0, cache |-> 0,
         value |-> 0, ip |-> "",
         svcCreates |-> 0, svcUpdates |-> 0, cause |-> "nil",
         svc |-> [namespace |-> "", name |-> "", ports |-> <<>>, type |-> ""]]

Idle == [at |-> "idle", hash |-> 0]
\* at: "idle" (no wait running; the counters are those of the last wait), "instance"
\* (WaitInstanceIsRunning on i) or "service" (WaitForService); elapsed: ticker periods
\* since WaitInstanceIsRunning began; ticked: a tick is pending on the ticker channel;
\* polls: polls WaitInstanceIsRunning made; last: what the wait's last poll reported;
\* cancelled: the caller's context is done.
NoWait == [at |-> "idle", i |-> 0, elapsed |-> 0, ticked |-> FALSE, polls |-> 0,
           last |-> "none", cancelled |-> FALSE]

\* The value a call returns, with the requests it made.
Result(op, err, f) == call' = [op |-> op, err |-> err] /\ fx' = f

\* The value returned by a descriptor or lifecycle call; these calls run to completion and
\* touch neither the live-operation collaborators nor a wait or a step-wise Commit.
Return(op, err) ==
    /\ Result(op, err, NoFx)
    /\ UNCHANGED <<pc, pushes, wait, shaping, netPolicies>>

\* A call that returns err before touching anything.
Failed(op, err) ==
    /\ Return(op, err)
    /\ UNCHANGED <<instances, nInst, imageCache, replicaSets, resources, nMut>>

\* A successful descriptor mutation of instance i.
Updated(op, i, rec) ==
    /\ nMut > 0
    /\ instances' = [instances EXCEPT ![i] = rec]
    /\ nMut' = nMut - 1
    /\ Return(op, "nil")
    /\ UNCHANGED <<nInst, imageCache, replicaSets, resources>>

\* A successful call that changes instance i and nothing else (no budget).
Moved(op, i, rec) ==
    /\ instances' = [instances EXCEPT ![i] = rec]
    /\ Return(op, "nil")
    /\ UNCHANGED <<nInst, imageCache, replicaSets, resources, nMut>>

\* --------------------------------------------------------------------- Init
\* Nothing is constructed yet and the process-wide state is empty.
Fresh ==
    /\ instances = [i \in Ids |-> NewInstance]
    /\ nInst = 0
    /\ imageCache = [h \in Hashes |-> ""]
    /\ replicaSets = {}
    /\ resources = {}
    /\ call = [op |-> "init", err |-> "nil"]
    /\ fx = NoFx
    /\ pc = [i \in Ids |-> Idle]
    /\ pushes = [h \in Hashes |-> 0]
    /\ wait = NoWait
    /\ shaping = [i \in Ids |-> {}]
    /\ netPolicies = {}

Init == Fresh /\ nMut = MaxMut

\* The same start, followed for more mutations.
InitPorts == Fresh /\ nMut = MaxPorts

InitStorage == Fresh /\ nMut = MaxStorage

\* ------------------------------------------------------------- construction
New(limit) ==
    /\ nInst < limit
    /\ nInst' = nInst + 1
    /\ instances' = [instances EXCEPT ![nInst + 1] = NewInstance]
    /\ Return("New", "nil")
    /\ UNCHANGED <<imageCache, replicaSets, resources, nMut>>

\* ------------------------------------------------------------ fault config
EnableBitTwister(i) ==
    /\ i \in 1..nInst
    /\ IF IsInState(i, {"Started"})
       THEN Failed("EnableBitTwister", "ErrEnablingBitTwister")
       ELSE Updated("EnableBitTwister", i, [instances[i] EXCEPT !.btEnabled = TRUE])

DisableBitTwister(i) ==
    /\ i \in 1..nInst
    /\ Updated("DisableBitTwister", i, [instances[i] EXCEPT !.btEnabled = FALSE])

\* -------------------------------------------------------------------- image
\* setImageWithGracePeriod: replaces the live compute unit with one running image.
setImageWithGracePeriod(op, i, image, ok) ==
    IF ok
    THEN Updated(op, i, [instances[i] EXCEPT !.imageName = image])
    ELSE Failed(op, "ErrReplacingPod")

SetImageAlsoInStopped(i) ==
    /\ i \in 1..nInst
    /\ \E image \in Images, ok \in BOOLEAN :
           IF ~IsInState(i, {"None", "Started", "Stopped"})
           THEN ok /\ Failed("SetImage", "ErrSettingImageNotAllowed")
           ELSE IF instances[i].state = "None"
           THEN IF ok
                THEN Moved("SetImage", i,
                           [instances[i] EXCEPT !.builderImage = image, !.builderHash = 0,
                                                !.state = "Preparing"])
                ELSE Failed("SetImage", "ErrCreatingBuilder")
           ELSE IF instances[i].isSidecar
           THEN ok /\ Failed("SetImage", "ErrSettingImageNotAllowedForSidecarsStarted")
           ELSE setImageWithGracePeriod("SetImage", i, image, ok)

SetImage(i) ==
    /\ i \in 1..nInst
    /\ \E image \in Images, ok \in BOOLEAN :
           IF ~IsInState(i, {"None", "Started"})
           THEN ok /\ Failed("SetImage", "ErrSettingImageNotAllowed")
           ELSE IF instances[i].state = "None"
           THEN IF ok
                THEN Moved("SetImage", i,
                           [instances[i] EXCEPT !.builderImage = image, !.builderHash = 0,
                                                !.state = "Preparing"])
                ELSE Failed("SetImage", "ErrCreatingBuilder")
           ELSE IF instances[i].isSidecar
           THEN ok /\ Failed("SetImage", "ErrSettingImageNotAllowedForSidecarsStarted")
           ELSE setImageWithGracePeriod("SetImage", i, image, ok)

SetGitRepo(i) ==
    /\ i \in 1..nInst
    /\ \E image \in Images, fail \in {"none", "context", "name", "factory", "build"} :
           IF ~IsInState(i, {"None"})
           THEN fail = "none" /\ Failed("SetGitRepo", "ErrSettingGitRepo")
           ELSE IF fail = "context" THEN Failed("SetGitRepo", "ErrGettingBuildContext")
           ELSE IF fail = "name" THEN Failed("SetGitRepo", "ErrGettingImageName")
           ELSE IF fail = "factory" THEN Failed("SetGitRepo", "ErrCreatingBuilder")
           ELSE /\ instances' = [instances EXCEPT ![i] =
                       [@ EXCEPT !.builderImage = image, !.builderHash = 0, !.state = "Preparing"]]
                /\ Return("SetGitRepo", IF fail = "build" THEN "ErrBuildingImageFromGitRepo" ELSE "nil")
                /\ UNCHANGED <<nInst, imageCache, replicaSets, resources, nMut>>

SetImageInstant(i) ==
    /\ i \in 1..nInst
    /\ \E image \in Images, ok \in BOOLEAN :
           IF ~IsInState(i, {"Started"})
           THEN ok /\ Failed("SetImageInstant", "ErrSettingImageNotAllowedForSidecarsStarted")
           ELSE IF instances[i].isSidecar
           THEN ok /\ Failed("SetImageInstant", "ErrSettingImageNotAllowedForSidecars")
           ELSE setImageWithGracePeriod("SetImageInstant", i, image, ok)

\* --------------------------------------------------------- descriptor setters
SetCommandInAnyState(i) ==
    /\ i \in 1..nInst
    /\ \E command \in Commands :
           Updated("SetCommand", i, [instances[i] EXCEPT !.command = command])

SetCommand(i) ==
    /\ i \in 1..nInst
    /\ \E command \in Commands :
           IF ~IsInState(i, {"Preparing", "Committed"})
           THEN Failed("SetCommand", "ErrSettingCommand")
           ELSE Updated("SetCommand", i, [instances[i] EXCEPT !.command = command])

SetArgs(i) ==
    /\ i \in 1..nInst
    /\ \E args \in Args :
           IF ~IsInState(i, {"Preparing", "Committed"})
           THEN Failed("SetArgs", "ErrSettingArgsNotAllowed")
           ELSE Updated("SetArgs", i, [instances[i] EXCEPT !.args = args])

\* validatePort: a port number is 1..65535.
validatePort(port) == port >= 1 /\ port <= 65535

isTCPPortRegistered(i, port) == port \in Range(instances[i].portsTCP)

isUDPPortRegistered(i, port) == port \in Range(instances[i].portsUDP)

AddPortTCPAllowingDuplicates(i) ==
    /\ i \in 1..nInst
    /\ \E port \in PortInputs :
           IF ~IsInState(i, {"Preparing", "Committed"})
           THEN Failed("AddPortTCP", "ErrAddingPortNotAllowed")
           ELSE IF ~validatePort(port)
           THEN Failed("AddPortTCP", "ErrPortNumberOutOfRange")
           ELSE Updated("AddPortTCP", i, [instances[i] EXCEPT !.portsTCP = Append(@, port)])

AddPortTCP(i) ==
    /\ i \in 1..nInst
    /\ \E port \in PortInputs :
           IF ~IsInState(i, {"Preparing", "Committed"})
           THEN Failed("AddPortTCP", "ErrAddingPortNotAllowed")
           ELSE IF ~validatePort(port)
           THEN Failed("AddPortTCP", "ErrPortNumberOutOfRange")
           ELSE IF isTCPPortRegistered(i, port)
           THEN Failed("AddPortTCP", "ErrPortAlreadyRegistered")
           ELSE Updated("AddPortTCP", i, [instances[i] EXCEPT !.portsTCP = Append(@, port)])

AddPortUDP(i) ==
    /\ i \in 1..nInst
    /\ \E port \in PortInputs :
           IF ~IsInState(i, {"Preparing", "Committed"})
           THEN Failed("AddPortUDP", "ErrAddingPortNotAllowed")
           ELSE IF ~validatePort(port)
           THEN Failed("AddPortUDP", "ErrPortNumberOutOfRange")
           ELSE IF isUDPPortRegistered(i, port)
           THEN Failed("AddPortUDP", "ErrUDPPortAlreadyRegistered")
           ELSE Updated("AddPortUDP", i, [instances[i] EXCEPT !.portsUDP = Append(@, port)])

addVolumeWithOwnerUnlimited(i, path, size, owner) ==
    IF ~IsInState(i, {"Preparing", "Committed"})
    THEN [err |-> "ErrAddingVolumeNotAllowed", volumes |-> instances[i].volumes]
    ELSE [err |-> "nil",
          volumes |-> Append(instances[i].volumes,
                             [path |-> path, size |-> size, owner |-> owner])]

\* AddVolumeWithOwner as a function of the instance: the error it returns and the
\* volume list it leaves.
addVolumeWithOwner(i, path, size, owner) ==
    IF ~IsInState(i, {"Preparing", "Committed"})
    THEN [err |-> "ErrAddingVolumeNotAllowed", volumes |-> instances[i].volumes]
    ELSE IF Len(instances[i].volumes) > 0
    THEN [err |-> "ErrMaximumVolumesExceeded", volumes |-> instances[i].volumes]
    ELSE [err |-> "nil",
          volumes |-> Append(instances[i].volumes,
                             [path |-> path, size |-> size, owner |-> owner])]

\* AddVolume drops the error of AddVolumeWithOwner and returns nil.
AddVolume(i) ==
    /\ i \in 1..nInst
    /\ \E path \in VolumePaths, size \in VolumeSizes :
           IF Len(instances[i].volumes) > 0
           THEN Failed("AddVolume", "ErrMaximumVolumesExceeded")
           ELSE LET r == addVolumeWithOwner(i, path, size, 0) IN
                IF r.err = "nil"
                THEN Updated("AddVolume", i, [instances[i] EXCEPT !.volumes = r.volumes])
                ELSE Failed("AddVolume", "nil")

AddVolumeWithOwner(i) ==
    /\ i \in 1..nInst
    /\ \E path \in VolumePaths, size \in VolumeSizes, owner \in Owners :
           LET r == addVolumeWithOwner(i, path, size, owner) IN
           IF r.err = "nil"
           THEN Updated("AddVolumeWithOwner", i, [instances[i] EXCEPT !.volumes = r.volumes])
           ELSE Failed("AddVolumeWithOwner", r.err)

\* strconv.ParseInt(s, 10, 64): the number, or -1 for a string that is not one.
ParseInt(str) ==
    CASE str = "0" -> 0 [] str = "1" -> 1 [] str = "2" -> 2 [] str = "1000" -> 1000
      [] OTHER -> -1

\* isSubFolderOfVolumes: dest lies under the path of a declared volume.
isSubFolderOfVolumes(i, dest) == \E k \in 1..Len(instances[i].volumes) :
                                     instances[i].volumes[k].path = dest.dir

\* The failures AddFile can meet before it looks at the state: validateFileArgs,
\* os.Stat(src), os.MkdirAll, os.Create, os.Open, io.Copy.
copyFailures ==
    [ args |-> "ErrValidatingFileArgs", src |-> "ErrSrcDoesNotExist",
      mkdir |-> "ErrCreatingDirectory", create |-> "ErrFailedToCreateDestFile",
      open |-> "ErrFailedToOpenSrcFile", copy |-> "ErrFailedToCopyFile" ]

AddFile(i) ==
    /\ i \in 1..nInst
    /\ \E dest \in Dests, chown \in Chowns, hash \in Hashes,
          fail \in DOMAIN copyFailures \cup {"none", "builder", "dir"} :
           LET quiet == dest.dir = "/data" /\ chown = <<"1000", "0">> /\ hash = 1
               group == ParseInt(chown[2])
           IN
           IF ~IsInState(i, {"Preparing", "Committed"})
           THEN quiet /\ fail = "none" /\ Failed("AddFile", "ErrAddingFileNotAllowed")
           ELSE IF fail \in DOMAIN copyFailures
           THEN quiet /\ Failed("AddFile", copyFailures[fail])
           ELSE IF instances[i].state = "Preparing"
           THEN IF fail = "builder"
                THEN quiet /\ Failed("AddFile", "ErrAddingFileToBuilder")
                ELSE fail = "none" /\ dest.dir = "/data" /\ chown = <<"1000", "0">>
                     /\ Moved("AddFile", i, [instances[i] EXCEPT !.builderHash = hash])
           ELSE hash = 1 /\ fail \in {"none", "dir"} /\
                IF ~isSubFolderOfVolumes(i, dest)
                THEN fail = "none" /\ Failed("AddFile", "ErrFileIsNotSubFolderOfVolumes")
                ELSE IF fail = "dir"
                THEN Failed("AddFile", "ErrSrcDoesNotExistOrIsDirectory")
                ELSE IF Len(chown) # 2 THEN Failed("AddFile", "ErrInvalidFormat")
                ELSE IF group < 0 THEN Failed("AddFile", "ErrFailedToConvertToInt64")
                ELSE IF instances[i].fsGroup # 0 /\ instances[i].fsGroup # group
                THEN Failed("AddFile", "ErrAllFilesMustHaveSameGroup")
                ELSE Updated("AddFile", i,
                             [instances[i] EXCEPT
                                 !.fsGroup = group,
                                 !.files = Append(@, [dest |-> dest, group |-> group])])

SetMemory(i) ==
    /\ i \in 1..nInst
    /\ \E request \in Quantities, limit \in Quantities :
           IF ~IsInState(i, {"Preparing", "Committed"})
           THEN Failed("SetMemory", "ErrSettingMemoryNotAllowed")
           ELSE Updated("SetMemory", i,
                        [instances[i] EXCEPT !.memoryRequest = request, !.memoryLimit = limit])

SetCPU(i) ==
    /\ i \in 1..nInst
    /\ \E request \in Quantities :
           IF ~IsInState(i, {"Preparing", "Committed"})
           THEN Failed("SetCPU", "ErrSettingCPUNotAllowed")
           ELSE Updated("SetCPU", i, [instances[i] EXCEPT !.cpuRequest = request])

\* In Preparing the variable goes into the build context (builderFactory.SetEnvVar),
\* which changes its content hash; in Committed it goes into i.env.
SetEnvironmentVariable(i) ==
    /\ i \in 1..nInst
    /\ \E key \in EnvKeys, value \in EnvValues, hash \in Hashes, ok \in BOOLEAN :
           IF ~IsInState(i, {"Preparing", "Committed"})
           THEN ok /\ hash = 1 /\ Failed("SetEnvironmentVariable", "ErrSettingEnvNotAllowed")
           ELSE IF instances[i].state = "Preparing"
           THEN IF ok
                THEN value = "x"
                     /\ Moved("SetEnvironmentVariable", i,
                              [instances[i] EXCEPT !.builderHash = hash])
                ELSE value = "x" /\ hash = 1
                     /\ Failed("SetEnvironmentVariable", "ErrSettingEnvVar")
           ELSE ok /\ hash = 1
                /\ Updated("SetEnvironmentVariable", i,
                           [instances[i] EXCEPT !.env =
                               {kv \in @ : kv[1] # key} \cup {<<key, value>>}])

AddPolicyRule(i) ==
    /\ i \in 1..nInst
    /\ \E rule \in PolicyRules :
           IF ~IsInState(i, {"Preparing", "Committed"})
           THEN Failed("AddPolicyRule", "ErrAddingPolicyRuleNotAllowed")
           ELSE Updated("AddPolicyRule", i, [instances[i] EXCEPT !.policyRules = Append(@, rule)])

checkStateForProbe(i) == IsInState(i, {"Preparing", "Committed"})

SetLivenessProbe(i) ==
    /\ i \in 1..nInst
    /\ \E livenessProbe \in Probes :
           IF ~checkStateForProbe(i)
           THEN Failed("SetLivenessProbe", "ErrSettingProbeNotAllowed")
           ELSE Updated("SetLivenessProbe", i, [instances[i] EXCEPT !.livenessProbe = livenessProbe])

SetReadinessProbe(i) ==
    /\ i \in 1..nInst
    /\ \E readinessProbe \in Probes :
           IF ~checkStateForProbe(i)
           THEN Failed("SetReadinessProbe", "ErrSettingProbeNotAllowed")
           ELSE Updated("SetReadinessProbe", i, [instances[i] EXCEPT !.readinessProbe = readinessProbe])

SetStartupProbe(i) ==
    /\ i \in 1..nInst
    /\ \E startupProbe \in Probes :
           IF ~checkStateForProbe(i)
           THEN Failed("SetStartupProbe", "ErrSettingProbeNotAllowed")
           ELSE Updated("SetStartupProbe", i, [instances[i] EXCEPT !.startupProbe = startupProbe])

\* validateStateForObsy: the observability setters are legal in Preparing and Committed.
validateStateForObsy(i) == IsInState(i, {"Preparing", "Committed"})

SetOtelEndpoint(i) ==
    /\ i \in 1..nInst
    /\ \E port \in ObsyPorts :
           IF ~validateStateForObsy(i)
           THEN Failed("SetOtelEndpoint", "ErrSettingNotAllowed")
           ELSE Updated("SetOtelEndpoint", i, [instances[i] EXCEPT !.otlpPort = port])

SetPrivileged(i) ==
    /\ i \in 1..nInst
    /\ \E privileged \in BOOLEAN :
           IF ~IsInState(i, {"Preparing", "Committed"})
           THEN privileged /\ Failed("SetPrivileged", "ErrSettingPrivilegedNotAllowed")
           ELSE Updated("SetPrivileged", i, [instances[i] EXCEPT !.privileged = privileged])

AddCapability(i) ==
    /\ i \in 1..nInst
    /\ \E capability \in Capabilities :
           IF ~IsInState(i, {"Preparing", "Committed"})
           THEN Failed("AddCapability", "ErrAddingCapabilityNotAllowed")
           ELSE Updated("AddCapability", i,
                        [instances[i] EXCEPT !.capabilitiesAdd = Append(@, capability)])

AddCapabilities(i) ==
    /\ i \in 1..nInst
    /\ \E capabilities \in CapabilityLists :
           IF ~IsInState(i, {"Preparing", "Committed"})
           THEN capabilities = <<>> /\ Failed("AddCapabilities", "ErrAddingCapabilitiesNotAllowed")
           ELSE Updated("AddCapabilities", i,
                        [instances[i] EXCEPT !.capabilitiesAdd = @ \o capabilities])

\* ------------------------------------------------------------------- commit
\* getImageRegistry: the registry name generated for instance i.
getImageRegistry(i) == "ttl.sh/" \o ToString(i)

checkImageHashInCache(imageHash) ==
    [imageName |-> imageCache[imageHash], exists |-> imageCache[imageHash] # ""]

updateImageCacheWithHash(imageHash, imageName) ==
    imageCache' = [imageCache EXCEPT ![imageHash] = imageName]

\* What a Commit that got as far as the cache returns: f tells its accesses.
Committing(err, f) ==
    /\ Result("Commit", err, f)
    /\ UNCHANGED <<nInst, replicaSets, resources, nMut, pc, wait, shaping, netPolicies>>

\* Commit sets the image reference and the state.
CommitSets(i, imageName) ==
    instances' = [instances EXCEPT ![i] = [@ EXCEPT !.imageName = imageName,
                                                    !.state = "Committed"]]

CommitIgnoringCache(i) ==
    /\ i \in 1..nInst
    /\ \E fail \in {"none", "registry", "hash", "push"} :
           IF ~IsInState(i, {"Preparing"})
           THEN fail = "none" /\ Failed("Commit", "ErrCommittingNotAllowed")
           ELSE IF instances[i].builderHash # 0
           THEN LET imageName == getImageRegistry(i)
                    imageHash == instances[i].builderHash
                IN  IF fail = "registry" THEN Failed("Commit", "ErrGettingImageRegistry")
                    ELSE IF fail = "hash" THEN Failed("Commit", "ErrGeneratingImageHash")
                    ELSE IF fail = "push" THEN Failed("Commit", "ErrPushingImage")
                    ELSE /\ updateImageCacheWithHash(imageHash, imageName)
                         /\ CommitSets(i, imageName)
                         /\ pushes' = [pushes EXCEPT ![imageHash] = @ + 1]
                         /\ Committing("nil", [NoFx EXCEPT !.cache = 1])
           ELSE fail = "none"
                /\ CommitSets(i, instances[i].builderImage)
                /\ Committing("nil", NoFx)
                /\ UNCHANGED <<imageCache, pushes>>

CommitBuildingUnchanged(i) ==
    /\ i \in 1..nInst
    /\ \E fail \in {"none", "registry", "hash", "push"}, hash \in Hashes :
           IF ~IsInState(i, {"Preparing"})
           THEN fail = "none" /\ hash = 1 /\ Failed("Commit", "ErrCommittingNotAllowed")
           ELSE LET imageName == getImageRegistry(i)
                    imageHash == IF instances[i].builderHash # 0
                                 THEN instances[i].builderHash ELSE hash
                    cached == checkImageHashInCache(imageHash)
                IN  /\ instances[i].builderHash # 0 => hash = 1
                    /\ IF fail = "registry" THEN Failed("Commit", "ErrGettingImageRegistry")
                       ELSE IF fail = "hash" THEN Failed("Commit", "ErrGeneratingImageHash")
                       ELSE IF cached.exists
                       THEN /\ fail = "none"
                            /\ CommitSets(i, cached.imageName)
                            /\ Committing("nil", [NoFx EXCEPT !.cache = 1])
                            /\ UNCHANGED <<imageCache, pushes>>
                       ELSE IF fail = "push"
                       THEN /\ Committing("ErrPushingImage", [NoFx EXCEPT !.cache = 1])
                            /\ UNCHANGED <<instances, imageCache, pushes>>
                       ELSE /\ updateImageCacheWithHash(imageHash, imageName)
                            /\ CommitSets(i, imageName)
                            /\ pushes' = [pushes EXCEPT ![imageHash] = @ + 1]
                            /\ Committing("nil", [NoFx EXCEPT !.cache = 2])

CommitCachingBeforePush(i) ==
    /\ i \in 1..nInst
    /\ \E fail \in {"none", "registry", "hash", "push"} :
           IF ~IsInState(i, {"Preparing"})
           THEN fail = "none" /\ Failed("Commit", "ErrCommittingNotAllowed")
           ELSE IF instances[i].builderHash # 0
           THEN LET imageName == getImageRegistry(i)
                    imageHash == instances[i].builderHash
                    cached == checkImageHashInCache(imageHash)
                IN  IF fail = "registry" THEN Failed("Commit", "ErrGettingImageRegistry")
                    ELSE IF fail = "hash" THEN Failed("Commit", "ErrGeneratingImageHash")
                    ELSE IF cached.exists
                    THEN /\ fail = "none"
                         /\ CommitSets(i, cached.imageName)
                         /\ Committing("nil", [NoFx EXCEPT !.cache = 1])
                         /\ UNCHANGED <<imageCache, pushes>>
                    ELSE IF fail = "push"
                    THEN /\ updateImageCacheWithHash(imageHash, imageName)
                         /\ Committing("ErrPushingImage", [NoFx EXCEPT !.cache = 2])
                         /\ UNCHANGED <<instances, pushes>>
                    ELSE /\ updateImageCacheWithHash(imageHash, imageName)
                         /\ CommitSets(i, imageName)
                         /\ pushes' = [pushes EXCEPT ![imageHash] = @ + 1]
                         /\ Committing("nil", [NoFx EXCEPT !.cache = 2])
           ELSE fail = "none"
                /\ CommitSets(i, instances[i].builderImage)
                /\ Committing("nil", NoFx)
                /\ UNCHANGED <<imageCache, pushes>>

Commit(i) ==
    /\ i \in 1..nInst
    /\ \E fail \in {"none", "registry", "hash", "push"} :
           IF ~IsInState(i, {"Preparing"})
           THEN fail = "none" /\ Failed("Commit", "ErrCommittingNotAllowed")
           ELSE IF instances[i].builderHash # 0
           THEN LET imageName == getImageRegistry(i)
                    imageHash == instances[i].builderHash
                    cached == checkImageHashInCache(imageHash)
                IN  IF fail = "registry" THEN Failed("Commit", "ErrGettingImageRegistry")
                    ELSE IF fail = "hash" THEN Failed("Commit", "ErrGeneratingImageHash")
                    ELSE IF cached.exists
                    THEN /\ fail = "none"
                         /\ CommitSets(i, cached.imageName)
                         /\ Committing("nil", [NoFx EXCEPT !.cache = 1])
                         /\ UNCHANGED <<imageCache, pushes>>
                    ELSE IF fail = "push"
                    THEN /\ Committing("ErrPushingImage", [NoFx EXCEPT !.cache = 1])
                         /\ UNCHANGED <<instances, imageCache, pushes>>
                    ELSE /\ updateImageCacheWithHash(imageHash, imageName)
                         /\ CommitSets(i, imageName)
                         /\ pushes' = [pushes EXCEPT ![imageHash] = @ + 1]
                         /\ Committing("nil", [NoFx EXCEPT !.cache = 2])
           ELSE fail = "none"
                /\ CommitSets(i, instances[i].builderImage)
                /\ Committing("nil", NoFx)
                /\ UNCHANGED <<imageCache, pushes>>

\* Commit as the goroutine of one caller runs it, one access to the shared imageCache per
\* step, so that the Commits of several callers interleave.  pc[i].hash is the local
\* imageHash; "done" keeps the hash the finished Commit was made for.

\* Instance i ends its Commit with image reference name.
CommitDone(i, name, hash) ==
    /\ instances' = [instances EXCEPT ![i] = [@ EXCEPT !.imageName = name, !.state = "Committed"]]
    /\ pc' = [pc EXCEPT ![i] = [at |-> "done", hash |-> hash]]
    /\ Result("Commit", "nil", NoFx)

\* Lines 842-858: the state check, Changed(), the registry name, the hash and the lookup.
CommitLookup(i) ==
    /\ i \in 1..nInst
    /\ pc[i].at \in {"idle", "done"}
    /\ \E fail \in {"none", "registry", "hash"} :
           IF ~IsInState(i, {"Preparing"})
           THEN fail = "none" /\ Failed("Commit", "ErrCommittingNotAllowed")
           ELSE IF instances[i].builderHash = 0
           THEN /\ fail = "none"
                /\ CommitDone(i, instances[i].builderImage, 0)
                /\ UNCHANGED <<nInst, imageCache, replicaSets, resources, nMut,
                               pushes, wait, shaping, netPolicies>>
           ELSE LET imageHash == instances[i].builderHash
                    cached == checkImageHashInCache(imageHash)
                IN  IF fail = "registry" THEN Failed("Commit", "ErrGettingImageRegistry")
                    ELSE IF fail = "hash" THEN Failed("Commit", "ErrGeneratingImageHash")
                    ELSE IF cached.exists
                    THEN /\ CommitDone(i, cached.imageName, imageHash)
                         /\ UNCHANGED <<nInst, imageCache, replicaSets, resources, nMut,
                                        pushes, wait, shaping, netPolicies>>
                    ELSE /\ pc' = [pc EXCEPT ![i] = [at |-> "push", hash |-> imageHash]]
                         /\ UNCHANGED <<instances, nInst, imageCache, replicaSets, resources,
                                        call, nMut, fx, pushes, wait, shaping, netPolicies>>

\* Lines 863-866: PushBuilderImage(imageName) after a miss.
CommitPush(i) ==
    /\ i \in 1..nInst
    /\ pc[i].at = "push"
    /\ \E ok \in BOOLEAN :
           IF ok
           THEN /\ pushes' = [pushes EXCEPT ![pc[i].hash] = @ + 1]
                /\ pc' = [pc EXCEPT ![i].at = "insert"]
                /\ UNCHANGED <<instances, nInst, imageCache, replicaSets, resources,
                               call, nMut, fx, wait, shaping, netPolicies>>
           ELSE /\ pc' = [pc EXCEPT ![i] = Idle]
                /\ Result("Commit", "ErrPushingImage", NoFx)
                /\ UNCHANGED <<instances, nInst, imageCache, replicaSets, resources,
                               nMut, pushes, wait, shaping, netPolicies>>

\* Lines 867-877: updateImageCacheWithHash, then the image name and the state.
CommitInsert(i) ==
    /\ i \in 1..nInst
    /\ pc[i].at = "insert"
    /\ updateImageCacheWithHash(pc[i].hash, getImageRegistry(i))
    /\ CommitDone(i, getImageRegistry(i), pc[i].hash)
    /\ UNCHANGED <<nInst, replicaSets, resources, nMut, pushes, wait, shaping, netPolicies>>

\* ----------------------------------------------------------------- sidecars
\* sidecar = 0 is the nil pointer.
AddSidecarNoAlreadySidecarCheck(i, sidecar) ==
    /\ i \in 1..nInst /\ sidecar \in 0..nInst
    /\ IF ~IsInState(i, {"Preparing", "Committed"})
       THEN Failed("AddSidecar", "ErrAddingSidecarNotAllowed")
       ELSE IF sidecar = 0 THEN Failed("AddSidecar", "ErrSidecarIsNil")
       ELSE IF sidecar = i THEN Failed("AddSidecar", "ErrSidecarCannotBeSameInstance")
       ELSE IF instances[sidecar].state # "Committed"
       THEN Failed("AddSidecar", "ErrSidecarNotCommitted")
       ELSE IF instances[i].isSidecar
       THEN Failed("AddSidecar", "ErrSidecarCannotHaveSidecar")
       ELSE /\ instances' = [instances EXCEPT
                   ![i].sidecars = Append(@, sidecar),
                   ![sidecar].isSidecar = TRUE,
                   ![sidecar].parentInstance = i]
            /\ Return("AddSidecar", "nil")
            /\ UNCHANGED <<nInst, imageCache, replicaSets, resources, nMut>>

AddSidecarAtFront(i, sidecar) ==
    /\ i \in 1..nInst /\ sidecar \in 0..nInst
    /\ IF ~IsInState(i, {"Preparing", "Committed"})
       THEN Failed("AddSidecar", "ErrAddingSidecarNotAllowed")
       ELSE IF sidecar = 0 THEN Failed("AddSidecar", "ErrSidecarIsNil")
       ELSE IF sidecar = i THEN Failed("AddSidecar", "ErrSidecarCannotBeSameInstance")
       ELSE IF instances[sidecar].state # "Committed"
       THEN Failed("AddSidecar", "ErrSidecarNotCommitted")
       ELSE IF instances[i].isSidecar
       THEN Failed("AddSidecar", "ErrSidecarCannotHaveSidecar")
       ELSE IF instances[sidecar].isSidecar
       THEN Failed("AddSidecar", "ErrSidecarAlreadySidecar")
       ELSE /\ instances' = [instances EXCEPT
                   ![i].sidecars = <<sidecar>> \o @,
                   ![sidecar].isSidecar = TRUE,
                   ![sidecar].parentInstance = i]
            /\ Return("AddSidecar", "nil")
            /\ UNCHANGED <<nInst, imageCache, replicaSets, resources, nMut>>

AddSidecar(i, sidecar) ==
    /\ i \in 1..nInst /\ sidecar \in 0..nInst
    /\ IF ~IsInState(i, {"Preparing", "Committed"})
       THEN Failed("AddSidecar", "ErrAddingSidecarNotAllowed")
       ELSE IF sidecar = 0 THEN Failed("AddSidecar", "ErrSidecarIsNil")
       ELSE IF sidecar = i THEN Failed("AddSidecar", "ErrSidecarCannotBeSameInstance")
       ELSE IF instances[sidecar].state # "Committed"
       THEN Failed("AddSidecar", "ErrSidecarNotCommitted")
       ELSE IF instances[i].isSidecar
       THEN Failed("AddSidecar", "ErrSidecarCannotHaveSidecar")
       ELSE IF instances[sidecar].isSidecar
       THEN Failed("AddSidecar", "ErrSidecarAlreadySidecar")
       ELSE /\ instances' = [instances EXCEPT
                   ![i].sidecars = Append(@, sidecar),
                   ![sidecar].isSidecar = TRUE,
                   ![sidecar].parentInstance = i]
            /\ Return("AddSidecar", "nil")
            /\ UNCHANGED <<nInst, imageCache, replicaSets, resources, nMut>>

\* setStateForSidecars: every instance of the list gets the state.
setStateForSidecars(insts, sidecars, state) ==
    [j \in Ids |-> IF j \in Range(sidecars) THEN [insts[j] EXCEPT !.state = state] ELSE insts[j]]

isObservabilityEnabled(i) == instances[i].otlpPort # 0

\* addOtelCollectorSidecar / addBitTwisterSidecar: a new instance built from the
\* reference image, committed and attached to i with AddSidecar.
addInjectedSidecar(st, i, image) ==
    LET id == st.nInst + 1 IN
    [ instances |-> [st.instances EXCEPT
                        ![id] = [NewInstance EXCEPT !.state = "Committed", !.imageName = image,
                                                    !.builderImage = image,
                                                    !.isSidecar = TRUE, !.parentInstance = i],
                        ![i].sidecars = Append(@, id)],
      nInst |-> id ]

\* The instances StartWithoutWait injects when it gets past point `fail`.
injected(i, fail) ==
    LET st0 == [instances |-> instances, nInst |-> nInst]
        st1 == IF isObservabilityEnabled(i) /\ fail # "otel"
               THEN addInjectedSidecar(st0, i, OtelCollectorImage) ELSE st0
        st2 == IF instances[i].btEnabled /\ fail \notin {"otel", "bittwister"}
               THEN addInjectedSidecar(st1, i, BitTwisterImage) ELSE st1
    IN  st2

\* The fail points StartWithoutWait can meet on instance i.
startFailPoints(i) ==
    {"none", "pod"}
    \cup (IF instances[i].state = "Committed" THEN {"resources", "sidecarResources"} ELSE {})
    \cup (IF instances[i].state = "Committed" /\ isObservabilityEnabled(i) THEN {"otel"} ELSE {})
    \cup (IF instances[i].state = "Committed" /\ instances[i].btEnabled THEN {"bittwister"} ELSE {})

\* StartWithoutWait as a function of the state: the error and the state it leaves.
\* `fail` is the collaborator call that fails, k the sidecar whose resources fail.
startWithoutWait(i, fail, k) ==
    LET same == [instances |-> instances, nInst |-> nInst,
                 replicaSets |-> replicaSets, resources |-> resources]
        fresh == instances[i].state = "Committed"
        st == IF fresh THEN injected(i, fail) ELSE [instances |-> instances, nInst |-> nInst]
        sc == st.instances[i].sidecars
        res == IF ~fresh \/ fail \in {"otel", "bittwister", "resources"} THEN resources
               ELSE IF fail = "sidecarResources"
               THEN resources \cup {i} \cup {sc[n] : n \in 1..(k - 1)}
               ELSE resources \cup {i} \cup Range(sc)
        partial == [instances |-> st.instances, nInst |-> st.nInst,
                    replicaSets |-> replicaSets, resources |-> res]
    IN  IF ~IsInState(i, {"Committed", "Stopped"})
        THEN [err |-> "ErrStartingNotAllowed"] @@ same
        ELSE IF \E s \in Range(instances[i].sidecars) :
                    instances[s].state \notin {"Committed", "Stopped"}
        THEN [err |-> "ErrStartingNotAllowedForSidecar"] @@ same
        ELSE IF instances[i].isSidecar
        THEN [err |-> "ErrStartingSidecarNotAllowed"] @@ same
        ELSE IF fail = "otel" THEN [err |-> "ErrAddingOtelCollectorSidecar"] @@ partial
        ELSE IF fail = "bittwister" THEN [err |-> "ErrAddingNetworkSidecar"] @@ partial
        ELSE IF fail = "resources" THEN [err |-> "ErrDeployingResourcesForInstance"] @@ partial
        ELSE IF fail = "sidecarResources"
        THEN [err |-> "ErrDeployingResourcesForSidecars"] @@ partial
        ELSE IF fail = "pod" THEN [err |-> "ErrDeployingPodForInstance"] @@ partial
        ELSE [ err |-> "nil",
               instances |-> setStateForSidecars(
                                 [st.instances EXCEPT ![i].state = "Started"], sc, "Started"),
               nInst |-> st.nInst,
               replicaSets |-> replicaSets \cup {i},
               resources |-> res ]

\* The number of instances StartWithoutWait injects when it gets past point `fail`.
nInjected(i, fail) ==
    (IF isObservabilityEnabled(i) /\ fail # "otel" THEN 1 ELSE 0)
    + (IF instances[i].btEnabled /\ fail \notin {"otel", "bittwister"} THEN 1 ELSE 0)

\* The inputs under which startWithoutWait stays within the pool of MaxInst instances.
startInputs(i) ==
    { <<fail, k>> \in startFailPoints(i) \X (1..MaxInst) :
        /\ instances[i].state = "Committed" => nInst + nInjected(i, fail) <= MaxInst
        /\ IF fail = "sidecarResources"
           THEN k <= Len(instances[i].sidecars) + nInjected(i, fail)
           ELSE k = 1 }

StartWithoutWaitStartedBeforePod(i) ==
    /\ i \in 1..nInst
    /\ \E in \in startInputs(i) :
           LET r == startWithoutWait(i, in[1], in[2]) IN
           /\ instances' = IF r.err = "ErrDeployingPodForInstance"
                            THEN [r.instances EXCEPT ![i].state = "Started"]
                            ELSE r.instances
           /\ nInst' = r.nInst
           /\ replicaSets' = r.replicaSets
           /\ resources' = r.resources
           /\ Return("StartWithoutWait", r.err)
           /\ UNCHANGED <<imageCache, nMut>>

StartWithoutWait(i) ==
    /\ i \in 1..nInst
    /\ \E in \in startInputs(i) :
           LET r == startWithoutWait(i, in[1], in[2]) IN
           /\ instances' = r.instances
           /\ nInst' = r.nInst
           /\ replicaSets' = r.replicaSets
           /\ resources' = r.resources
           /\ Return("StartWithoutWait", r.err)
           /\ UNCHANGED <<imageCache, nMut>>

\* Start: StartWithoutWait, then WaitInstanceIsRunning, whose error is wrapped.
Start(i) ==
    /\ i \in 1..nInst
    /\ \E in \in startInputs(i), running \in BOOLEAN :
           LET r == startWithoutWait(i, in[1], in[2]) IN
           /\ r.err # "nil" => running
           /\ instances' = r.instances
           /\ nInst' = r.nInst
           /\ replicaSets' = r.replicaSets
           /\ resources' = r.resources
           /\ Return("Start",
                     IF r.err # "nil" THEN r.err
                     ELSE IF running THEN "nil" ELSE "ErrWaitingForInstanceRunning")
           /\ UNCHANGED <<imageCache, nMut>>

StopDestroyingResources(i) ==
    /\ i \in 1..nInst
    /\ \E ok \in BOOLEAN :
           IF ~IsInState(i, {"Started"})
           THEN ok /\ Failed("Stop", "ErrStoppingNotAllowed")
           ELSE IF ~ok THEN Failed("Stop", "ErrDestroyingPod")
           ELSE /\ replicaSets' = replicaSets \ {i}
                /\ resources' = resources \ ({i} \cup Range(instances[i].sidecars))
                /\ instances' = setStateForSidecars(
                                    [instances EXCEPT ![i].state = "Stopped"],
                                    instances[i].sidecars, "Stopped")
                /\ Return("Stop", "nil")
                /\ UNCHANGED <<nInst, imageCache, nMut>>

StopParentOnly(i) ==
    /\ i \in 1..nInst
    /\ \E ok \in BOOLEAN :
           IF ~IsInState(i, {"Started"})
           THEN ok /\ Failed("Stop", "ErrStoppingNotAllowed")
           ELSE IF ~ok THEN Failed("Stop", "ErrDestroyingPod")
           ELSE /\ replicaSets' = replicaSets \ {i}
                /\ instances' = [instances EXCEPT ![i].state = "Stopped"]
                /\ Return("Stop", "nil")
                /\ UNCHANGED <<nInst, imageCache, resources, nMut>>

Stop(i) ==
    /\ i \in 1..nInst
    /\ \E ok \in BOOLEAN :
           IF ~IsInState(i, {"Started"})
           THEN ok /\ Failed("Stop", "ErrStoppingNotAllowed")
           ELSE IF ~ok THEN Failed("Stop", "ErrDestroyingPod")
           ELSE /\ replicaSets' = replicaSets \ {i}
                /\ instances' = setStateForSidecars(
                                    [instances EXCEPT ![i].state = "Stopped"],
                                    instances[i].sidecars, "Stopped")
                /\ Return("Stop", "nil")
                /\ UNCHANGED <<nInst, imageCache, resources, nMut>>

\* ------------------------------------------------------------------ address
\* A GetIP that changes nothing on the instance.
Answered(err, f) ==
    /\ Result("GetIP", err, f)
    /\ UNCHANGED <<instances, nInst, imageCache, replicaSets, resources, nMut,
                   pc, pushes, wait, shaping, netPolicies>>

GetIPUncached(i) ==
    /\ i \in 1..nInst
    /\ \E first \in ServiceAnswers, deployed \in BOOLEAN, second \in ServiceAnswers :
           LET svc == IF first = "error" THEN second ELSE first
               calls == IF first = "error" THEN 3 ELSE 1
           IN
           IF first = "error" /\ ~deployed
           THEN second = "" /\ Answered("ErrDeployingServiceForInstance",
                                        [NoFx EXCEPT !.cluster = 2])
           ELSE IF svc = "error"
           THEN Answered("ErrGettingServiceForInstance", [NoFx EXCEPT !.cluster = 3])
           ELSE /\ (first # "error" => deployed /\ second = "")
                /\ IF svc = ""
                   THEN Answered("ErrGettingServiceIP", [NoFx EXCEPT !.cluster = calls])
                   ELSE /\ instances' = [instances EXCEPT ![i].kubernetesService = svc]
                        /\ Result("GetIP", "nil", [NoFx EXCEPT !.cluster = calls, !.ip = svc])
                        /\ UNCHANGED <<nInst, imageCache, replicaSets, resources, nMut,
                                       pc, pushes, wait, shaping, netPolicies>>

\* first, second: the answers of the two GetService calls; deployed: deployService succeeds.
GetIP(i) ==
    /\ i \in 1..nInst
    /\ \E first \in ServiceAnswers, deployed \in BOOLEAN, second \in ServiceAnswers :
           LET svc == IF first = "error" THEN second ELSE first
               calls == IF first = "error" THEN 3 ELSE 1
           IN
           IF instances[i].kubernetesService \notin {"nil", ""}
           THEN /\ first = "" /\ deployed /\ second = ""
                /\ Answered("nil", [NoFx EXCEPT !.ip = instances[i].kubernetesService])
           ELSE IF first = "error" /\ ~deployed
           THEN second = "" /\ Answered("ErrDeployingServiceForInstance",
                                        [NoFx EXCEPT !.cluster = 2])
           ELSE IF svc = "error"
           THEN Answered("ErrGettingServiceForInstance", [NoFx EXCEPT !.cluster = 3])
           ELSE /\ (first # "error" => deployed /\ second = "")
                /\ IF svc = ""
                   THEN Answered("ErrGettingServiceIP", [NoFx EXCEPT !.cluster = calls])
                   ELSE /\ instances' = [instances EXCEPT ![i].kubernetesService = svc]
                        /\ Result("GetIP", "nil", [NoFx EXCEPT !.cluster = calls, !.ip = svc])
                        /\ UNCHANGED <<nInst, imageCache, replicaSets, resources, nMut,
                                       pc, pushes, wait, shaping, netPolicies>>

\* -------------------------------------------------------------------- clone
\* cloneWithSuffix: a copy of instance i that is not a sidecar, with a copy of each of
\* its sidecars attached to it; the copies take the next free ids.
cloneWithSuffix(i) ==
    LET id == nInst + 1
        sc == instances[i].sidecars
        copies == [k \in 1..Len(sc) |-> id + k]
    IN  [ instances |->
              [j \in Ids |->
                  IF j = id
                  THEN [instances[i] EXCEPT !.isSidecar = FALSE, !.parentInstance = 0,
                                            !.sidecars = copies]
                  ELSE IF j > id /\ j <= id + Len(sc)
                  THEN [instances[sc[j - id]] EXCEPT !.isSidecar = TRUE,
                                                     !.parentInstance = id]
                  ELSE instances[j]],
          nInst |-> id + Len(sc) ]

\* The body shared by Clone and CloneWithName; named: names.NewRandomK8 succeeds.
clone(i, op, errs) ==
    \E named \in BOOLEAN :
        IF ~IsInState(i, {"Committed"})
        THEN named /\ Failed(op, errs.state)
        ELSE IF ~named THEN Failed(op, errs.name)
        ELSE LET r == cloneWithSuffix(i) IN
             /\ r.nInst <= MaxInst
             /\ instances' = r.instances
             /\ nInst' = r.nInst
             /\ Return(op, "nil")
             /\ UNCHANGED <<imageCache, replicaSets, resources, nMut>>

Clone(i) ==
    /\ i \in 1..nInst
    /\ clone(i, "Clone", [state |-> "ErrCloningNotAllowed", name |-> "ErrGeneratingK8sName"])

CloneWithName(i) ==
    /\ i \in 1..nInst
    /\ clone(i, "CloneWithName", [state |-> "ErrCloningNotAllowedForSidecar",
                                  name |-> "ErrGeneratingK8sNameForSidecar"])

\* exists: CustomResourceDefinitionExists; created: K8sCli.CreateCustomResource succeeds.
CreateCustomResource(i) ==
    /\ i \in 1..nInst
    /\ \E exists \in BOOLEAN, created \in BOOLEAN :
           /\ IF ~exists
              THEN created /\ Result("CreateCustomResource",
                                     "ErrCustomResourceDefinitionDoesNotExist",
                                     [NoFx EXCEPT !.cluster = 1])
              ELSE Result("CreateCustomResource",
                          IF created THEN "nil" ELSE "ErrCreatingCustomResource",
                          [NoFx EXCEPT !.cluster = 2, !.created = IF created THEN 1 ELSE 0])
           /\ UNCHANGED <<instances, nInst, imageCache, replicaSets, resources, nMut,
                          pc, pushes, wait, shaping, netPolicies>>

\* --------------------------------------------------------------------- Next
Next ==
    \/ New(MaxDescribed)
    \/ \E i \in Ids :
        \/ EnableBitTwister(i)
        \/ DisableBitTwister(i)
        \/ SetImage(i)
        \/ SetGitRepo(i)
        \/ SetImageInstant(i)
        \/ SetCommand(i)
        \/ SetArgs(i)
        \/ AddPortTCP(i)
        \/ AddPortUDP(i)
        \/ AddVolume(i)
        \/ AddVolumeWithOwner(i)
        \/ SetMemory(i)
        \/ SetCPU(i)
        \/ SetEnvironmentVariable(i)
        \/ AddPolicyRule(i)
        \/ SetLivenessProbe(i)
        \/ SetReadinessProbe(i)
        \/ SetStartupProbe(i)
        \/ SetOtelEndpoint(i)
        \/ SetPrivileged(i)
        \/ AddCapability(i)
        \/ AddCapabilities(i)
        \/ Commit(i)
        \/ \E sidecar \in 0..MaxInst : AddSidecar(i, sidecar)
        \/ StartWithoutWait(i)
        \/ Start(i)
        \/ Stop(i)

Spec == Init /\ [][Next]_vars

\* The lifecycle and sidecar operations alone, over the whole pool of instances.
NextLifecycle ==
    \/ New(MaxInst)
    \/ \E i \in Ids :
        \/ SetImage(i)
        \/ EnableBitTwister(i)
        \/ Commit(i)
        \/ \E sidecar \in 0..MaxInst : AddSidecar(i, sidecar)
        \/ StartWithoutWait(i)
        \/ Start(i)
        \/ Stop(i)

SpecLifecycle == Init /\ [][NextLifecycle]_vars

\* The Sidecar Composer's operations alone: SetImage, Commit, AddSidecar, Start, Stop.
NextCompose ==
    \/ New(MaxInst)
    \/ \E i \in Ids :
        \/ SetImage(i)
        \/ Commit(i)
        \/ \E sidecar \in 0..MaxInst : AddSidecar(i, sidecar)
        \/ Start(i)
        \/ Stop(i)

SpecCompose == Init /\ [][NextCompose]_vars

\* The Commit Pipeline alone: instances whose build contexts change, and their commits.
NextCommit ==
    \/ New(MaxInst)
    \/ \E i \in Ids :
        \/ SetImage(i)
        \/ SetGitRepo(i)
        \/ SetEnvironmentVariable(i)
        \/ Commit(i)

SpecCommit == Init /\ [][NextCommit]_vars

\* ---------------------------------------------------------- live operations
\* A live operation returns; it leaves the descriptors and the deployment alone.
LiveCall(op, err, f) ==
    /\ Result(op, err, f)
    /\ UNCHANGED <<instances, nInst, imageCache, replicaSets, resources, nMut, pc, pushes, wait>>

\* A live operation that touches neither the shaping modes nor the network policies.
Served(op, err, f) == LiveCall(op, err, f) /\ UNCHANGED <<shaping, netPolicies>>

\* The local port getFreePortTCP allocates.
LocalPort == 30000

\* The retry loop of PortForwardTCP from the given attempt on; outcomes[k] tells whether
\* the k-th PortForwardPod call succeeds.
RECURSIVE forwardLoop(_, _, _, _)
forwardLoop(attempt, port, outcomes, f) ==
    IF attempt > maxRetries
    THEN [err |-> "nil", fx |-> [f EXCEPT !.value = LocalPort]]
    ELSE LET tried == [f EXCEPT !.tunnels = @ + 1, !.port = port] IN
         IF outcomes[attempt]
         THEN [err |-> "nil", fx |-> [tried EXCEPT !.value = LocalPort]]
         ELSE IF attempt = maxRetries
         THEN [err |-> "ErrForwardingPort", fx |-> [tried EXCEPT !.value = -1]]
         ELSE forwardLoop(attempt + 1, port, outcomes, [tried EXCEPT !.sleeps = @ + 1])

\* Tunnel outcomes offered to PortForwardTCP: the first n attempts fail, the next succeeds
\* (one more than maxRetries, so that a further attempt would show).
TunnelOutcomes == {[k \in 1..(maxRetries + 1) |-> k > n] : n \in 0..(maxRetries + 1)}

PortForwardTCPUnregistered(i) ==
    /\ i \in 1..nInst
    /\ \E port \in PortInputs, freePort \in BOOLEAN, pod \in BOOLEAN, outcomes \in TunnelOutcomes :
           IF ~IsInState(i, {"Started"})
           THEN /\ freePort /\ pod /\ outcomes[1]
                /\ Served("PortForwardTCP", "ErrRandomPortForwardingNotAllowed",
                          [NoFx EXCEPT !.value = -1])
           ELSE IF ~validatePort(port)
           THEN /\ freePort /\ pod /\ outcomes[1]
                /\ Served("PortForwardTCP", "ErrPortNumberOutOfRange", NoFx)
           ELSE IF ~freePort
           THEN /\ pod /\ outcomes[1]
                /\ Served("PortForwardTCP", "ErrGettingFreePort", [NoFx EXCEPT !.value = -1])
           ELSE IF ~pod
           THEN /\ outcomes[1]
                /\ Served("PortForwardTCP", "ErrGettingPodFromReplicaSet",
                          [NoFx EXCEPT !.cluster = 1, !.value = -1])
           ELSE LET r == forwardLoop(1, port, outcomes, [NoFx EXCEPT !.cluster = 1])
                IN  Served("PortForwardTCP", r.err, r.fx)

PortForwardTCP(i) ==
    /\ i \in 1..nInst
    /\ \E port \in PortInputs, freePort \in BOOLEAN, pod \in BOOLEAN, outcomes \in TunnelOutcomes :
           IF ~IsInState(i, {"Started"})
           THEN /\ freePort /\ pod /\ outcomes[1]
                /\ Served("PortForwardTCP", "ErrRandomPortForwardingNotAllowed",
                          [NoFx EXCEPT !.value = -1])
           ELSE IF ~validatePort(port)
           THEN /\ freePort /\ pod /\ outcomes[1]
                /\ Served("PortForwardTCP", "ErrPortNumberOutOfRange", NoFx)
           ELSE IF ~isTCPPortRegistered(i, port)
           THEN /\ freePort /\ pod /\ outcomes[1]
                /\ Served("PortForwardTCP", "ErrPortNotRegistered", [NoFx EXCEPT !.value = -1])
           ELSE IF ~freePort
           THEN /\ pod /\ outcomes[1]
                /\ Served("PortForwardTCP", "ErrGettingFreePort", [NoFx EXCEPT !.value = -1])
           ELSE IF ~pod
           THEN /\ outcomes[1]
                /\ Served("PortForwardTCP", "ErrGettingPodFromReplicaSet",
                          [NoFx EXCEPT !.cluster = 1, !.value = -1])
           ELSE LET r == forwardLoop(1, port, outcomes, [NoFx EXCEPT !.cluster = 1])
                IN  Served("PortForwardTCP", r.err, r.fx)

ExecuteCommand(i) ==
    /\ i \in 1..nInst
    /\ \E pod \in BOOLEAN, ran \in BOOLEAN :
           IF ~IsInState(i, {"Preparing", "Started"})
           THEN pod /\ ran /\ Served("ExecuteCommand", "ErrExecutingCommandNotAllowed", NoFx)
           ELSE IF IsInState(i, {"Preparing"})
           THEN pod /\ Served("ExecuteCommand",
                              IF ran THEN "nil" ELSE "ErrExecutingCommandInInstance",
                              [NoFx EXCEPT !.builder = 1])
           ELSE IF ~pod
           THEN ran /\ Served("ExecuteCommand", "ErrGettingPodFromReplicaSet",
                              [NoFx EXCEPT !.cluster = 1])
           ELSE Served("ExecuteCommand",
                       IF ran THEN "nil"
                       ELSE IF instances[i].isSidecar THEN "ErrExecutingCommandInSidecar"
                       ELSE "ErrExecutingCommandInInstance",
                       [NoFx EXCEPT !.cluster = 2])

\* In Started the file is read by ReadFileFromRunningInstance, which runs ExecuteCommand.
GetFileBytes(i) ==
    /\ i \in 1..nInst
    /\ \E pod \in BOOLEAN, read \in BOOLEAN :
           IF ~IsInState(i, {"Preparing", "Committed", "Started"})
           THEN pod /\ read /\ Served("GetFileBytes", "ErrGettingFileNotAllowed", NoFx)
           ELSE IF instances[i].state # "Started"
           THEN pod /\ Served("GetFileBytes", IF read THEN "nil" ELSE "ErrGettingFile",
                              [NoFx EXCEPT !.builder = 1])
           ELSE IF ~pod
           THEN read /\ Served("GetFileBytes", "ErrReadingFile", [NoFx EXCEPT !.cluster = 1])
           ELSE Served("GetFileBytes", IF read THEN "nil" ELSE "ErrReadingFile",
                       [NoFx EXCEPT !.cluster = 2])

DisableNetwork(i) ==
    /\ i \in 1..nInst
    /\ \E ok \in BOOLEAN :
           IF ~IsInState(i, {"Started"})
           THEN ok /\ Served("DisableNetwork", "ErrDisablingNetworkNotAllowed", NoFx)
           ELSE /\ LiveCall("DisableNetwork", IF ok THEN "nil" ELSE "ErrDisablingNetwork",
                            [NoFx EXCEPT !.cluster = 1])
                /\ netPolicies' = IF ok THEN netPolicies \cup {i} ELSE netPolicies
                /\ UNCHANGED shaping

EnableNetwork(i) ==
    /\ i \in 1..nInst
    /\ \E ok \in BOOLEAN :
           IF ~IsInState(i, {"Started"})
           THEN ok /\ Served("EnableNetwork", "ErrEnablingNetworkNotAllowed", NoFx)
           ELSE /\ LiveCall("EnableNetwork", IF ok THEN "nil" ELSE "ErrEnablingNetwork",
                            [NoFx EXCEPT !.cluster = 1])
                /\ netPolicies' = IF ok THEN netPolicies \ {i} ELSE netPolicies
                /\ UNCHANGED shaping

\* value 1: the policy exists.
NetworkIsDisabled(i) ==
    /\ i \in 1..nInst
    /\ IF ~IsInState(i, {"Started"})
       THEN Served("NetworkIsDisabled", "ErrCheckingIfNetworkDisabledNotAllowed", NoFx)
       ELSE Served("NetworkIsDisabled", "nil",
                   [NoFx EXCEPT !.cluster = 1, !.value = IF i \in netPolicies THEN 1 ELSE 0])

\* --------------------------------------------------------- fault controller
Modes == {"bandwidth", "latency", "packetloss"}

\* The classes of stop error the setters tolerate (sdk.IsErrorServiceNotInitialized,
\* IsErrorServiceNotReady, IsErrorServiceNotStarted).
ToleratedStopErrors == {"notInitialized", "notReady", "notStarted"}

\* The fault-injection client: a stop request stops the mode if it is running and
\* otherwise answers not started, not initialized or not ready; either may fail with
\* another error.
StopOutcomes(i, mode) ==
    IF mode \in shaping[i] THEN {"stopped", "error"} ELSE ToleratedStopErrors \cup {"error"}

setShapingModeNoEnabledCheck(i, op, mode, errs) ==
    IF ~IsInState(i, {"Started"})
    THEN Served(op, errs.state, NoFx)
    ELSE \E stop \in StopOutcomes(i, mode), started \in BOOLEAN :
            IF stop = "error"
            THEN started /\ Served(op, errs.stop, [NoFx EXCEPT !.btStops = 1, !.btStop = stop])
            ELSE /\ LiveCall(op, IF started THEN "nil" ELSE errs.start,
                             [NoFx EXCEPT !.btStops = 1, !.btStarts = 1, !.btStop = stop])
                 /\ shaping' = [shaping EXCEPT ![i] =
                                   IF started THEN @ \cup {mode} ELSE @ \ {mode}]
                 /\ UNCHANGED netPolicies

setShapingModeIgnoringStopError(i, op, mode, errs) ==
    IF ~IsInState(i, {"Started"})
    THEN Served(op, errs.state, NoFx)
    ELSE IF ~instances[i].btEnabled
    THEN Served(op, errs.bitTwister, NoFx)
    ELSE \E stop \in StopOutcomes(i, mode), started \in BOOLEAN :
            /\ LiveCall(op, IF started THEN "nil" ELSE errs.start,
                        [NoFx EXCEPT !.btStops = 1, !.btStarts = 1, !.btStop = stop])
            /\ shaping' = [shaping EXCEPT ![i] =
                              IF started THEN @ \cup {mode} ELSE @ \ {mode}]
            /\ UNCHANGED netPolicies

\* The body shared by SetBandwidthLimit, SetLatencyAndJitter and SetPacketLoss: the two
\* checks, the stop request of the mode being set, then its start request.
setShapingMode(i, op, mode, errs) ==
    IF ~IsInState(i, {"Started"})
    THEN Served(op, errs.state, NoFx)
    ELSE IF ~instances[i].btEnabled
    THEN Served(op, errs.bitTwister, NoFx)
    ELSE \E stop \in StopOutcomes(i, mode), started \in BOOLEAN :
            IF stop = "error"
            THEN started /\ Served(op, errs.stop, [NoFx EXCEPT !.btStops = 1, !.btStop = stop])
            ELSE /\ LiveCall(op, IF started THEN "nil" ELSE errs.start,
                             [NoFx EXCEPT !.btStops = 1, !.btStarts = 1, !.btStop = stop])
                 /\ shaping' = [shaping EXCEPT ![i] =
                                   IF started THEN @ \cup {mode} ELSE @ \ {mode}]
                 /\ UNCHANGED netPolicies

SetBandwidthLimit(i) ==
    /\ i \in 1..nInst
    /\ setShapingMode(i, "SetBandwidthLimit", "bandwidth",
                      [state      |-> "ErrSettingBandwidthLimitNotAllowed",
                       bitTwister |-> "ErrSettingBandwidthLimitNotAllowedBitTwister",
                       stop       |-> "ErrStoppingBandwidthLimit",
                       start      |-> "ErrSettingBandwidthLimit"])

SetLatencyAndJitter(i) ==
    /\ i \in 1..nInst
    /\ setShapingMode(i, "SetLatencyAndJitter", "latency",
                      [state      |-> "ErrSettingLatencyJitterNotAllowed",
                       bitTwister |-> "ErrSettingLatencyJitterNotAllowedBitTwister",
                       stop       |-> "ErrStoppingLatencyJitter",
                       start      |-> "ErrSettingLatencyJitter"])

SetPacketLoss(i) ==
    /\ i \in 1..nInst
    /\ setShapingMode(i, "SetPacketLoss", "packetloss",
                      [state      |-> "ErrSettingPacketLossNotAllowed",
                       bitTwister |-> "ErrSettingPacketLossNotAllowedBitTwister",
                       stop       |-> "ErrStoppingPacketLoss",
                       start      |-> "ErrSettingPacketLoss"])

\* The instance while it lives: description, start, stop and the live operations.
NextLive ==
    \/ New(MaxDescribed)
    \/ \E i \in Ids :
        \/ SetImage(i)
        \/ AddPortTCP(i)
        \/ Commit(i)
        \/ StartWithoutWait(i)
        \/ Stop(i)
        \/ PortForwardTCP(i)
        \/ ExecuteCommand(i)
        \/ GetFileBytes(i)
        \/ DisableNetwork(i)
        \/ EnableNetwork(i)
        \/ NetworkIsDisabled(i)
        \/ SetBandwidthLimit(i)
        \/ SetLatencyAndJitter(i)
        \/ SetPacketLoss(i)

SpecLive == Init /\ [][NextLive]_vars

\* The Network Fault Controller on an instance with or without fault injection enabled.
NextFault ==
    \/ New(MaxDescribed)
    \/ \E i \in Ids :
        \/ SetImage(i)
        \/ EnableBitTwister(i)
        \/ Commit(i)
        \/ StartWithoutWait(i)
        \/ Stop(i)
        \/ SetBandwidthLimit(i)
        \/ SetLatencyAndJitter(i)
        \/ SetPacketLoss(i)

SpecFault == Init /\ [][NextFault]_vars

\* ------------------------------------------------------------------- services
\* The namespace of the client and the arguments of CreateService and PatchService.
Namespaces == {"", "test"}
ServiceNames == {"", "web"}
ServicePortInputs == {80, 443}
PortLists == UNION {[1..n -> ServicePortInputs] : n \in 0..MaxServicePorts}

\* A v1.ServicePort; Sprintf("tcp-%d", port) is kept as the pair of its prefix and number,
\* and int32(port) is port for the ports drawn here.
ServicePort(prefix, protocol, port) ==
    [name |-> <<prefix, port>>, protocol |-> protocol, port |-> port,
     targetPort |-> port]

buildPortsUDPFirst(tcpPorts, udpPorts) ==
    [k \in 1..Len(udpPorts) |-> ServicePort("udp", "UDP", udpPorts[k])]
    \o [k \in 1..Len(tcpPorts) |-> ServicePort("tcp", "TCP", tcpPorts[k])]

\* Lines 89-108.
buildPorts(tcpPorts, udpPorts) ==
    [k \in 1..Len(tcpPorts) |-> ServicePort("tcp", "TCP", tcpPorts[k])]
    \o [k \in 1..Len(udpPorts) |-> ServicePort("udp", "UDP", udpPorts[k])]

\* Lines 110-146: the error and the Service built (labels and selector are carried
\* through unchanged and left out).
prepareService(namespace, name, tcpPorts, udpPorts) ==
    LET servicePorts == buildPorts(tcpPorts, udpPorts) IN
    IF namespace = "" THEN [err |-> "ErrNamespaceRequired", svc |-> NoFx.svc]
    ELSE IF name = "" THEN [err |-> "ErrServiceNameRequired", svc |-> NoFx.svc]
    ELSE IF Len(servicePorts) = 0 THEN [err |-> "ErrNoPortsSpecified", svc |-> NoFx.svc]
    ELSE [err |-> "nil",
          svc |-> [namespace |-> namespace, name |-> name, ports |-> servicePorts,
                   type |-> "ClusterIP"]]

\* The result of a call on the client: no instance is touched.
ClientCall(op, err, f) ==
    /\ Result(op, err, f)
    /\ UNCHANGED <<instances, nInst, imageCache, replicaSets, resources, nMut,
                   pc, pushes, wait, shaping, netPolicies>>

\* Lines 23-42.
CreateService(namespace, name, portsTCP, portsUDP) ==
    LET p == prepareService(namespace, name, portsTCP, portsUDP) IN
    IF p.err # "nil"
    THEN ClientCall("CreateService", "ErrPreparingService", [NoFx EXCEPT !.cause = p.err])
    ELSE \E created \in BOOLEAN :
            ClientCall("CreateService", IF created THEN "nil" ELSE "ErrCreatingService",
                       [NoFx EXCEPT !.cluster = 1, !.svcCreates = 1, !.svc = p.svc])

\* Lines 44-64.
PatchService(namespace, name, portsTCP, portsUDP) ==
    LET p == prepareService(namespace, name, portsTCP, portsUDP) IN
    IF p.err # "nil"
    THEN ClientCall("PatchService", "ErrPreparingService", [NoFx EXCEPT !.cause = p.err])
    ELSE \E updated \in BOOLEAN :
            ClientCall("PatchService", IF updated THEN "nil" ELSE "ErrPatchingService",
                       [NoFx EXCEPT !.cluster = 1, !.svcUpdates = 1, !.svc = p.svc])

\* Services are created and patched through the client.
NextService ==
    \E namespace \in Namespaces, name \in ServiceNames, portsTCP \in PortLists,
       portsUDP \in PortLists :
        \/ CreateService(namespace, name, portsTCP, portsUDP)
        \/ PatchService(namespace, name, portsTCP, portsUDP)

SpecService == Init /\ [][NextService]_vars

\* ------------------------------------------------------------------- waits
\* A step of a wait: only the wait and, when it returns, the result change.
WaitStep(w) ==
    /\ wait' = w
    /\ UNCHANGED <<instances, nInst, imageCache, replicaSets, resources, nMut,
                   pc, pushes, shaping, netPolicies>>

Continue(w) == WaitStep(w) /\ UNCHANGED <<call, fx>>

Returned(op, err, w) == WaitStep([w EXCEPT !.at = "idle"]) /\ Result(op, err, NoFx)

\* Lines 1331-1335: the state check, then the deadline timer and the ticker are set up.
WaitInstanceIsRunning(i) ==
    /\ i \in 1..nInst
    /\ wait.at = "idle"
    /\ IF ~IsInState(i, {"Started"})
       THEN Served("WaitInstanceIsRunning", "ErrWaitingForInstanceNotAllowed", NoFx)
       ELSE Continue([NoWait EXCEPT !.at = "instance", !.i = i])

\* Line 149: the ticker is set up.
WaitForService ==
    /\ wait.at = "idle"
    /\ Continue([NoWait EXCEPT !.at = "service"])

\* A ticker period passes: a tick becomes pending (the channel holds at most one).
\* WaitForService has no deadline, so its periods are not counted.
Tick ==
    \/ /\ wait.at = "instance"
       /\ wait.elapsed < WaitDeadline + MaxLate
       /\ Continue([wait EXCEPT !.elapsed = @ + 1, !.ticked = TRUE])
    \/ /\ wait.at = "service"
       /\ ~wait.ticked
       /\ Continue([wait EXCEPT !.ticked = TRUE])

\* The caller's context is cancelled or its deadline passes.
Cancel ==
    /\ wait.at # "idle"
    /\ ~wait.cancelled
    /\ Continue([wait EXCEPT !.cancelled = TRUE])

\* Lines 1339-1340: select takes the deadline case.
WaitInstanceTimeout ==
    /\ wait.at = "instance"
    /\ wait.elapsed >= WaitDeadline
    /\ Returned("WaitInstanceIsRunning", "ErrWaitingForInstanceTimeout", wait)

WaitInstancePollUntilDeadline ==
    /\ wait.at = "instance"
    /\ wait.ticked
    /\ \E poll \in {"running", "notRunning", "error"} :
           LET w == [wait EXCEPT !.ticked = FALSE, !.polls = @ + 1, !.last = poll] IN
           IF poll = "error" \/ wait.cancelled \/ ~IsInState(wait.i, {"Started", "Stopped"})
           THEN poll = "error"
                /\ Returned("WaitInstanceIsRunning", "ErrCheckingIfInstanceRunning", w)
           ELSE Continue(w)

\* Lines 1341-1348: select takes the tick case and polls IsRunning(ctx); a cluster call
\* made with a context that is done fails.
WaitInstancePoll ==
    /\ wait.at = "instance"
    /\ wait.ticked
    /\ \E poll \in {"running", "notRunning", "error"} :
           LET w == [wait EXCEPT !.ticked = FALSE, !.polls = @ + 1, !.last = poll] IN
           IF poll = "error" \/ wait.cancelled \/ ~IsInState(wait.i, {"Started", "Stopped"})
           THEN poll = "error"
                /\ Returned("WaitInstanceIsRunning", "ErrCheckingIfInstanceRunning", w)
           ELSE IF poll = "running"
           THEN Returned("WaitInstanceIsRunning", "nil", w)
           ELSE Continue(w)

\* Lines 154-155: select takes the ctx.Done() case.
WaitForServiceDone ==
    /\ wait.at = "service"
    /\ wait.cancelled
    /\ Returned("WaitForService", "ErrTimeoutWaitingForServiceReady", wait)

\* Lines 157-176: select takes the tick case: isServiceReady, GetServiceEndpoint and
\* checkServiceConnectivity.
WaitForServicePoll ==
    /\ wait.at = "service"
    /\ wait.ticked
    /\ \E poll \in {"readyError", "notReady", "endpointError", "unreachable", "reachable"} :
           LET w == [wait EXCEPT !.ticked = FALSE, !.last = poll] IN
           IF poll = "readyError" \/ wait.cancelled
           THEN poll = "readyError"
                /\ Returned("WaitForService", "ErrCheckingServiceReady", w)
           ELSE IF poll = "endpointError"
           THEN Returned("WaitForService", "ErrGettingServiceEndpoint", w)
           ELSE IF poll = "reachable"
           THEN Returned("WaitForService", "nil", w)
           ELSE Continue(w)

\* Lines 1499-1501: the state check of WaitInstanceIsStopped; its loop follows.
WaitInstanceIsStopped(i) ==
    /\ i \in 1..nInst
    /\ wait.at = "idle"
    /\ IF ~IsInState(i, {"Stopped"})
       THEN Served("WaitInstanceIsStopped", "ErrWaitingForInstanceStoppedNotAllowed", NoFx)
       ELSE Continue([NoWait EXCEPT !.at = "stopped", !.i = i])

\* Lines 1502-1510: one turn of the loop.  IsRunning answers (true, nil): "running",
\* (false, nil): "notRunning", (false, err): "error", or (true, err): "runningError";
\* outside Started and Stopped it answers (false, err) without asking the cluster.
WaitStoppedPoll ==
    /\ wait.at = "stopped"
    /\ wait.polls < MaxPolls
    /\ \E poll \in {"running", "notRunning", "error", "runningError"} :
           LET w == [wait EXCEPT !.polls = @ + 1, !.last = poll] IN
           /\ ~IsInState(wait.i, {"Started", "Stopped"}) => poll = "error"
           /\ IF poll \in {"notRunning", "error"}
              THEN Returned("WaitInstanceIsStopped", "nil", w)
              ELSE IF poll = "runningError"
              THEN Returned("WaitInstanceIsStopped", "ErrCheckingIfInstanceStopped", w)
              ELSE Continue(w)

\* An instance is brought to Started and waited for; a service is waited for.  The
\* caller is one flow: it describes and starts the instance before its first wait.
NextWait ==
    \/ wait = NoWait /\ New(MaxDescribed)
    \/ \E i \in Ids :
        \/ wait = NoWait /\ SetImage(i)
        \/ wait = NoWait /\ Commit(i)
        \/ wait = NoWait /\ StartWithoutWait(i)
        \/ WaitInstanceIsRunning(i)
    \/ WaitForService
    \/ Tick
    \/ Cancel
    \/ WaitInstanceTimeout
    \/ WaitInstancePoll
    \/ WaitForServiceDone
    \/ WaitForServicePoll

SpecWait == Init /\ [][NextWait]_vars

\* An instance is started, stopped and waited for to be gone.
NextStopWait ==
    \/ New(MaxDescribed)
    \/ \E i \in Ids :
        \/ SetImage(i)
        \/ Commit(i)
        \/ StartWithoutWait(i)
        \/ Stop(i)
        \/ WaitInstanceIsStopped(i)
    \/ WaitStoppedPoll

SpecStopWait == Init /\ [][NextStopWait]_vars

\* Time passes, and a select with a ready case takes one: the deadline case of
\* WaitInstanceIsRunning stays ready once it is, so it is taken unless the wait returns.
SpecWaitFair ==
    /\ SpecWait
    /\ WF_vars(Tick)
    /\ WF_vars(WaitInstanceTimeout)

\* Port registration on one instance.
NextPorts ==
    \/ New(MaxDescribed)
    \/ \E i \in Ids :
        \/ SetImage(i)
        \/ Commit(i)
        \/ AddPortTCP(i)
        \/ AddPortUDP(i)

SpecPorts == InitPorts /\ [][NextPorts]_vars

\* Commits of several callers running concurrently, one goroutine per instance.
NextConcurrent ==
    \/ New(MaxInst)
    \/ \E i \in Ids :
        \/ SetImage(i)
        \/ SetEnvironmentVariable(i)
        \/ CommitLookup(i)
        \/ CommitPush(i)
        \/ CommitInsert(i)

SpecConcurrent == Init /\ [][NextConcurrent]_vars

\* One instance with its volume and files, across Start and Stop.
NextStorage ==
    \/ New(MaxDescribed)
    \/ \E i \in Ids :
        \/ SetImage(i)
        \/ Commit(i)
        \/ AddVolume(i)
        \/ AddVolumeWithOwner(i)
        \/ AddFile(i)
        \/ StartWithoutWait(i)
        \/ Stop(i)

SpecStorage == InitStorage /\ [][NextStorage]_vars

\* Instances, their sidecars and their clones.
NextClone ==
    \/ New(MaxInst)
    \/ \E i \in Ids :
        \/ SetImage(i)
        \/ Commit(i)
        \/ \E sidecar \in 0..MaxInst : AddSidecar(i, sidecar)
        \/ StartWithoutWait(i)
        \/ Stop(i)
        \/ Clone(i)
        \/ CloneWithName(i)
        \/ CreateCustomResource(i)

SpecClone == Init /\ [][NextClone]_vars

\* One instance through its life, asked for its address at any time.
NextAddress ==
    \/ New(MaxDescribed)
    \/ \E i \in Ids :
        \/ SetImage(i)
        \/ AddPortTCP(i)
        \/ Commit(i)
        \/ StartWithoutWait(i)
        \/ Stop(i)
        \/ GetIP(i)

SpecAddress == Init /\ [][NextAddress]_vars

\* =================================================================== claims
Started(i) == instances[i].state = "Started"

\* The calls C1 is about, on instance i.
GuardedSetterCall(i) ==
    \/ SetCommand(i) \/ SetArgs(i) \/ AddPortTCP(i) \/ AddPortUDP(i)
    \/ SetMemory(i) \/ SetCPU(i) \/ SetEnvironmentVariable(i) \/ AddPolicyRule(i)
    \/ SetLivenessProbe(i) \/ SetReadinessProbe(i) \/ SetStartupProbe(i)
    \/ SetPrivileged(i) \/ AddCapability(i) \/ AddCapabilities(i)
    \/ \E sidecar \in 0..MaxInst : AddSidecar(i, sidecar)

\* C1: SetCommand, SetArgs, AddPortTCP, AddPortUDP, SetMemory, SetCPU,
\* SetEnvironmentVariable, AddPolicyRule, the three probe setters, SetPrivileged,
\* AddCapability, AddCapabilities and AddSidecar, called on an instance in None,
\* Started or Stopped, return a state-violation error and change no field of any instance.
C1_SettersRejectedOutsidePreparingCommitted ==
    [][\A i \in 1..nInst :
          (instances[i].state \in {"None", "Started", "Stopped"} /\ GuardedSetterCall(i))
          => (call'.err \in StateViolationErrs /\ instances' = instances)]_vars

\* A command set in Preparing survives a SetCommand rejected in Stopped.
C1_Witness ==
    /\ call = [op |-> "SetCommand", err |-> "ErrSettingCommand"]
    /\ nInst = 1
    /\ instances[1].state = "Stopped"
    /\ instances[1].command = <<"sh">>

\* C2: AddVolume and AddVolumeWithOwner, called on an instance that is neither Preparing
\* nor Committed, return a state-violation error and leave the volume list unchanged.
C2_VolumesRejectedOutsidePreparingCommitted ==
    [][\A i \in 1..nInst :
          (instances[i].state \notin {"Preparing", "Committed"}
              /\ (AddVolume(i) \/ AddVolumeWithOwner(i)))
          => (call'.err \in StateViolationErrs
              /\ instances'[i].volumes = instances[i].volumes)]_vars

\* C3: EnableBitTwister and DisableBitTwister, called in None, Started or Stopped, fail
\* with an error and leave the enabled flag unchanged.
C3_BitTwisterConfigOnlyInPreparingCommitted ==
    [][\A i \in 1..nInst :
          (instances[i].state \in {"None", "Started", "Stopped"}
              /\ (EnableBitTwister(i) \/ DisableBitTwister(i)))
          => (call'.err # "nil"
              /\ instances'[i].btEnabled = instances[i].btEnabled)]_vars

\* A Start (or StartWithoutWait) call on i or on the parent of i.
StartOnSelfOrParent(i) ==
    \E p \in {i, instances[i].parentInstance} \ {0} : StartWithoutWait(p) \/ Start(p)

\* C4: the state of an instance changes only along None -> Preparing (SetImage,
\* SetGitRepo), Preparing -> Committed (Commit), Committed -> Started and Stopped ->
\* Started (Start/StartWithoutWait on it or on its parent), Started -> Stopped (Stop).
C4_StateChangesOnlyAlongEdges ==
    [][\A i \in 1..nInst :
          LET a == instances[i].state
              b == instances'[i].state
          IN  a # b =>
                \/ a = "None" /\ b = "Preparing" /\ call'.op \in {"SetImage", "SetGitRepo"}
                \/ a = "Preparing" /\ b = "Committed" /\ call'.op = "Commit"
                \/ a \in {"Committed", "Stopped"} /\ b = "Started" /\ StartOnSelfOrParent(i)
                \/ a = "Started" /\ b = "Stopped" /\ call'.op = "Stop"]_vars

\* C5: SetImage succeeds only in None (moving to Preparing) and in Started on a
\* non-sidecar (staying Started); in Preparing, Committed or Stopped it fails and leaves
\* state and image reference unchanged.  SetImageInstant succeeds only in Started on a
\* non-sidecar and leaves the state Started.
C5_SetImageStates ==
    [][\A i \in 1..nInst :
          LET a == instances[i]
              b == instances'[i]
          IN  /\ (call' = [op |-> "SetImage", err |-> "nil"] /\ SetImage(i))
                 => \/ a.state = "None" /\ b.state = "Preparing"
                    \/ a.state = "Started" /\ ~a.isSidecar /\ b.state = "Started"
              /\ (a.state \in {"Preparing", "Committed", "Stopped"} /\ SetImage(i))
                 => (call'.err # "nil" /\ b.state = a.state /\ b.imageName = a.imageName)
              /\ (call' = [op |-> "SetImageInstant", err |-> "nil"] /\ SetImageInstant(i))
                 => (a.state = "Started" /\ ~a.isSidecar /\ b.state = "Started")]_vars

\* SetImage has replaced the image of a Started instance committed under a pushed name.
C5_Witness ==
    /\ call = [op |-> "SetImage", err |-> "nil"]
    /\ nInst = 1
    /\ instances[1].state = "Started"
    /\ instances[1].builderHash # 0
    /\ instances[1].imageName \in Images

\* C6: Commit succeeds only from Preparing; a successful Commit leaves the instance
\* Committed with the image reference of its path (the base image when the context is
\* unchanged, the cached reference on a hit, the pushed name on a miss); the image
\* reference does not change while the instance remains Committed.
C6_CommitFixesImage ==
    [][\A i \in 1..nInst :
          LET a == instances[i]
              b == instances'[i]
          IN  /\ (call' = [op |-> "Commit", err |-> "nil"] /\ Commit(i))
                 => /\ a.state = "Preparing"
                    /\ b.state = "Committed"
                    /\ b.imageName =
                         IF a.builderHash = 0 THEN a.builderImage
                         ELSE IF imageCache[a.builderHash] # "" THEN imageCache[a.builderHash]
                         ELSE getImageRegistry(i)
              /\ (a.state = "Committed" /\ b.state = "Committed")
                 => b.imageName = a.imageName]_vars

\* A Commit served from the cache: the instance holds the name another one pushed.
C6_Witness ==
    /\ call = [op |-> "Commit", err |-> "nil"]
    /\ \E i, j \in 1..nInst :
          /\ i # j
          /\ instances[i].state = "Committed"
          /\ instances[j].state = "Committed"
          /\ instances[i].builderHash # 0
          /\ instances[i].imageName = getImageRegistry(j)

AllSidecarsIn(insts, i, state) ==
    \A s \in Range(insts[i].sidecars) : insts[s].state = state

\* C7: after a successful Start or StartWithoutWait on a parent, the parent and all its
\* sidecars are Started; after a successful Stop on it, all are Stopped.
C7_StartStopReachAllSidecars ==
    [][\A i \in 1..nInst :
          /\ (call'.err = "nil" /\ call'.op \in {"StartWithoutWait", "Start"}
                 /\ (StartWithoutWait(i) \/ Start(i)))
             => (instances'[i].state = "Started" /\ AllSidecarsIn(instances', i, "Started"))
          /\ (call' = [op |-> "Stop", err |-> "nil"] /\ Stop(i))
             => (instances'[i].state = "Stopped" /\ AllSidecarsIn(instances', i, "Stopped"))]_vars

\* A parent with two sidecars the caller attached has been stopped, and all three are
\* Stopped.
C7_Witness ==
    /\ call = [op |-> "Stop", err |-> "nil"]
    /\ \E i \in 1..nInst :
          /\ ~instances[i].isSidecar
          /\ Len(instances[i].sidecars) = 2
          /\ instances[i].state = "Stopped"
          /\ AllSidecarsIn(instances, i, "Stopped")
          /\ \A s \in Range(instances[i].sidecars) : instances[s].imageName \in Images

\* C8: StartWithoutWait, Start and Stop called on a sidecar fail and change no
\* instance's state; whenever a parent is Started all of its sidecars are Started.
C8_SidecarRejectsDirectStartStop ==
    /\ [][\A i \in 1..nInst :
            (instances[i].isSidecar /\ call'.op \in {"StartWithoutWait", "Start", "Stop"}
                /\ (StartWithoutWait(i) \/ Start(i) \/ Stop(i)))
            => (call'.err # "nil"
                /\ \A j \in Ids : instances'[j].state = instances[j].state)]_vars
    /\ [](\A i \in 1..nInst : Started(i) => AllSidecarsIn(instances, i, "Started"))

\* The cases in which C9 says AddSidecar(i, sidecar) fails.
AddSidecarRejected(i, sidecar) ==
    \/ instances[i].state \notin {"Preparing", "Committed"}
    \/ sidecar = 0
    \/ sidecar = i
    \/ instances[sidecar].state # "Committed"
    \/ instances[i].isSidecar
    \/ instances[sidecar].isSidecar

\* C9: AddSidecar fails and changes nothing when the parent is not in {Preparing,
\* Committed}, the candidate is nil, is the parent, is not Committed, the parent is a
\* sidecar, or the candidate is already a sidecar.
C9_AddSidecarRejections ==
    [][\A i \in 1..nInst, sidecar \in 0..nInst :
          (call'.op = "AddSidecar" /\ AddSidecarRejected(i, sidecar) /\ AddSidecar(i, sidecar))
          => (call'.err # "nil" /\ instances' = instances)]_vars

\* An attached sidecar was offered to another Committed parent and refused.
C9_Witness ==
    /\ call = [op |-> "AddSidecar", err |-> "ErrSidecarAlreadySidecar"]
    /\ \E i, j \in 1..nInst :
          /\ i # j
          /\ instances[i].state = "Committed" /\ instances[i].sidecars # <<>>
          /\ instances[j].state = "Committed" /\ instances[j].sidecars = <<>>
          /\ ~instances[j].isSidecar

\* C10: no instance that is a sidecar owns a non-empty sidecar sequence.
C10_NoNestedSidecars ==
    \A i \in 1..nInst : instances[i].isSidecar => instances[i].sidecars = <<>>

\* Two finished Commits made for the same content hash of a changed build context.
SameHashCommitted(i, j) ==
    /\ i # j
    /\ pc[i].at = "done" /\ pc[j].at = "done"
    /\ pc[i].hash # 0 /\ pc[i].hash = pc[j].hash
    /\ instances[i].state = "Committed" /\ instances[j].state = "Committed"

\* C11: two instances committed from changed build contexts with the same content hash
\* hold the same image reference, and PushBuilderImage ran at most once for that hash.
C11_SameHashSameImageOnePush ==
    \A i, j \in 1..nInst :
        SameHashCommitted(i, j)
        => /\ instances[i].imageName = instances[j].imageName
           /\ pushes[pc[i].hash] <= 1

\* A Commit that has looked its hash up and missed, and has not inserted yet.
InCheckThenInsert(i) == pc[i].at \in {"push", "insert"}

\* C12: the check-then-insert sequences of Commits on the same hash are serialized: while
\* one Commit is between its lookup and its insert, no other Commit on that hash is.
C12_CacheAccessSerialized ==
    \A i, j \in 1..nInst :
        (i # j /\ InCheckThenInsert(i) /\ InCheckThenInsert(j)) => pc[i].hash # pc[j].hash

\* C13: once a hash is mapped to an image reference it stays mapped to that reference.
C13_CacheWriteOnce ==
    [][\A h \in Hashes : imageCache[h] # "" => imageCache'[h] = imageCache[h]]_vars

\* The operations that require Started.
StartedOnlyCall(i) ==
    \/ PortForwardTCP(i) \/ SetBandwidthLimit(i) \/ SetLatencyAndJitter(i) \/ SetPacketLoss(i)
    \/ DisableNetwork(i) \/ EnableNetwork(i) \/ NetworkIsDisabled(i)

\* C14: the operations that require Started fail with a state-violation error in every
\* other state; ExecuteCommand and GetFileBytes succeed only in Started and Preparing,
\* and in Preparing they make no cluster call.
C14_LiveOperationStates ==
    [][\A i \in 1..nInst :
          /\ (instances[i].state # "Started" /\ StartedOnlyCall(i))
             => call'.err \in StateViolationErrs
          /\ (call'.err = "nil" /\ call'.op \in {"ExecuteCommand", "GetFileBytes"}
                /\ (ExecuteCommand(i) \/ GetFileBytes(i)))
             => instances[i].state \in {"Started", "Preparing"}
          /\ (instances[i].state = "Preparing" /\ (ExecuteCommand(i) \/ GetFileBytes(i)))
             => fx'.cluster = 0]_vars

C16_OneShapingMode ==
    [][\A i \in 1..nInst :
          /\ (call' = [op |-> "SetBandwidthLimit", err |-> "nil"] /\ SetBandwidthLimit(i))
             => shaping'[i] = {"bandwidth"}
          /\ (call' = [op |-> "SetLatencyAndJitter", err |-> "nil"] /\ SetLatencyAndJitter(i))
             => shaping'[i] = {"latency"}
          /\ (call' = [op |-> "SetPacketLoss", err |-> "nil"] /\ SetPacketLoss(i))
             => shaping'[i] = {"packetloss"}]_vars

\* C17: PortForwardTCP attempts the tunnel only when the instance is Started and the port
\* is a registered TCP port; it makes at most maxRetries attempts; on success every
\* attempt but the last was followed by a wait and the local port is returned; the error
\* ErrForwardingPort comes after exactly maxRetries attempts.
C17_PortForwardRetries ==
    [][\A i \in 1..nInst :
          (call'.op = "PortForwardTCP" /\ PortForwardTCP(i))
          => /\ fx'.tunnels > 0
                => (instances[i].state = "Started" /\ fx'.port \in Range(instances[i].portsTCP))
             /\ fx'.tunnels <= maxRetries
             /\ (call'.err = "nil")
                => (fx'.tunnels >= 1 /\ fx'.sleeps = fx'.tunnels - 1 /\ fx'.value = LocalPort)
             /\ (call'.err = "ErrForwardingPort")
                <=> (fx'.tunnels = maxRetries /\ fx'.sleeps = maxRetries - 1
                     /\ call'.err # "nil")]_vars

\* The tunnel came up at the third attempt.
C17_Witness ==
    /\ call = [op |-> "PortForwardTCP", err |-> "nil"]
    /\ fx.tunnels = 3 /\ fx.sleeps = 2 /\ fx.value = LocalPort

\* C18: WaitInstanceIsRunning returns success at the poll that reports a running
\* replica and ErrCheckingIfInstanceRunning at the poll whose query fails, in both cases
\* without a further poll; it returns the timeout error only once the deadline has
\* passed; it polls at most once per tick; and every wait returns.
C18_RunningWaitBounded ==
    /\ [][wait.at = "instance" =>
            /\ wait'.polls = wait.polls + 1
               => /\ wait'.last = "running"
                     => (wait'.at = "idle" /\ call'.err = "nil")
                  /\ wait'.last = "error"
                     => (wait'.at = "idle" /\ call'.err = "ErrCheckingIfInstanceRunning")
                  /\ wait'.last = "notRunning" => wait'.at = "instance"
            /\ (wait'.at = "idle" /\ call'.err = "nil") => wait'.last = "running"
            /\ (wait'.at = "idle" /\ call'.err = "ErrWaitingForInstanceTimeout")
               => (wait.elapsed >= WaitDeadline /\ wait'.polls = wait.polls)]_vars
    /\ [](wait.polls <= wait.elapsed)
    /\ ((wait.at = "instance") ~> (wait.at = "idle"))

\* The wait polled at every tick up to the deadline without seeing a running replica and
\* returned the timeout error.
C18_Witness ==
    /\ call = [op |-> "WaitInstanceIsRunning", err |-> "ErrWaitingForInstanceTimeout"]
    /\ wait.at = "idle"
    /\ wait.elapsed = WaitDeadline
    /\ wait.polls = WaitDeadline

\* The timeout class of errors.
TimeoutErrs == {"ErrWaitingForInstanceTimeout", "ErrTimeoutWaitingForServiceReady"}

\* C19: a readiness wait whose context is done returns a timeout-class error.
C19_CancelledWaitTimesOut ==
    [][(wait.at # "idle" /\ wait.cancelled /\ wait'.at = "idle")
         => call'.err \in TimeoutErrs]_vars

NoDuplicates(ports) ==
    \A a, b \in 1..Len(ports) : a # b => ports[a] # ports[b]

\* C20: a successful AddPortTCP (AddPortUDP) appends a port that was not yet in the TCP
\* (UDP) list, a failing one leaves the list unchanged, and neither list ever holds a
\* duplicate.
C20_PortsRegisteredOnce ==
    /\ [][\A i \in 1..nInst :
            LET a == instances[i]
                b == instances'[i]
            IN  /\ (call'.op = "AddPortTCP" /\ AddPortTCP(i))
                   => IF call'.err = "nil"
                      THEN \E port \in PortInputs \ Range(a.portsTCP) :
                              b.portsTCP = Append(a.portsTCP, port)
                      ELSE b.portsTCP = a.portsTCP
                /\ (call'.op = "AddPortUDP" /\ AddPortUDP(i))
                   => IF call'.err = "nil"
                      THEN \E port \in PortInputs \ Range(a.portsUDP) :
                              b.portsUDP = Append(a.portsUDP, port)
                      ELSE b.portsUDP = a.portsUDP]_vars
    /\ [](\A i \in 1..nInst :
            NoDuplicates(instances[i].portsTCP) /\ NoDuplicates(instances[i].portsUDP))

\* With two TCP ports registered, adding one of them again was refused.
C20_Witness ==
    /\ call = [op |-> "AddPortTCP", err |-> "ErrPortAlreadyRegistered"]
    /\ \E i \in 1..nInst : Len(instances[i].portsTCP) = 2

\* C21: an instance never holds more than one volume; AddVolume and AddVolumeWithOwner
\* on an instance that already has a volume return an error and leave every instance,
\* the existing volume included, as it was.
C21_AtMostOneVolume ==
    /\ [](\A i \in Ids : Len(instances[i].volumes) <= 1)
    /\ [][\A i \in 1..nInst :
             (/\ call'.op \in {"AddVolume", "AddVolumeWithOwner"}
              /\ Len(instances[i].volumes) > 0
              /\ (AddVolume(i) \/ AddVolumeWithOwner(i)))
             => call'.err # "nil" /\ instances' = instances]_vars

C21_Witness ==
    /\ call = [op |-> "AddVolumeWithOwner", err |-> "ErrMaximumVolumesExceeded"]
    /\ \E i \in 1..nInst : Len(instances[i].volumes) = 1 /\ nMut > 0

\* C22: the files recorded on an instance all have the same owning group, whatever
\* groups, 0 included, the AddFile calls on the Committed instance were given.
C22_FilesShareOneGroup ==
    \A i \in Ids : \A m, n \in 1..Len(instances[i].files) :
        instances[i].files[m].group = instances[i].files[n].group

\* Instance i has an auto-injected sidecar built from the reference image.
HasInjectedSidecar(i, image) ==
    \E k \in 1..Len(instances[i].sidecars) :
        instances[instances[i].sidecars[k]].imageName = image

\* C23: whenever fault shaping is permitted on an instance (it is Started and fault
\* injection is enabled) the instance has a fault-injection sidecar, and a Started
\* instance with observability enabled has a collector sidecar: every successful start,
\* from Committed or from Stopped, attached them before deploying the compute unit.
C23_InjectedSidecarsAttached ==
    \A i \in Ids :
        instances[i].state = "Started" =>
            /\ instances[i].btEnabled => HasInjectedSidecar(i, BitTwisterImage)
            /\ isObservabilityEnabled(i) => HasInjectedSidecar(i, OtelCollectorImage)

\* Every instance keeps its descriptor in this step; only states may change.
DescriptorsKept ==
    \A j \in Ids : instances'[j] = [instances[j] EXCEPT !.state = instances'[j].state]

\* C24: Stop removes only the compute unit and leaves the volume list and every other
\* descriptor field alone; a start from Stopped deploys the compute unit again and
\* neither removes nor deploys supporting resources; so the supporting resources of an
\* instance with a volume stay deployed from its first start on, across Stop and Start.
C24_StopKeepsVolume ==
    /\ [][\A i \in 1..nInst :
             (call'.op = "Stop" /\ Stop(i))
             => /\ resources' = resources
                /\ replicaSets' \in {replicaSets, replicaSets \ {i}}
                /\ DescriptorsKept]_vars
    /\ [][\A i \in 1..nInst :
             (call'.op = "StartWithoutWait" /\ instances[i].state = "Stopped"
              /\ StartWithoutWait(i))
             => /\ resources' = resources
                /\ replicaSets' \in {replicaSets, replicaSets \cup {i}}
                /\ call'.err = "nil" => i \in replicaSets'
                /\ DescriptorsKept]_vars
    /\ [](\A i \in Ids :
             (instances[i].state \in {"Started", "Stopped"} /\ Len(instances[i].volumes) > 0)
             => i \in resources)

C24_Witness ==
    /\ call = [op |-> "Stop", err |-> "nil"]
    /\ \E i \in 1..nInst :
           /\ instances[i].state = "Stopped" /\ Len(instances[i].volumes) = 1
           /\ i \in resources /\ i \notin replicaSets

\* Some sidecar of i is in a state outside `states`.
SomeSidecarOutside(i, states) ==
    \E k \in 1..Len(instances[i].sidecars) :
        instances[instances[i].sidecars[k]].state \notin states

\* C25: StartWithoutWait, Start and Stop on a parent with a sidecar in a state that does
\* not permit the operation (outside {Committed, Stopped} for a start, not Started for
\* Stop) fail, deploy and destroy nothing, and change no instance.
C25_SidecarsCheckedFirst ==
    [][\A i \in 1..nInst :
          \/ /\ call'.op \in {"StartWithoutWait", "Start"}
             /\ SomeSidecarOutside(i, {"Committed", "Stopped"})
             /\ (StartWithoutWait(i) \/ Start(i))
          \/ /\ call'.op = "Stop"
             /\ SomeSidecarOutside(i, {"Started"})
             /\ Stop(i)
          => /\ call'.err # "nil"
             /\ UNCHANGED <<instances, nInst, replicaSets, resources>>]_vars

ShapingCalls == {"SetBandwidthLimit", "SetLatencyAndJitter", "SetPacketLoss"}

StopErrs == {"ErrStoppingBandwidthLimit", "ErrStoppingLatencyJitter", "ErrStoppingPacketLoss"}

\* C27: in SetBandwidthLimit, SetLatencyAndJitter and SetPacketLoss a stop request that
\* answers not initialized, not ready or not started is tolerated and the start request
\* is still sent; any other stop error makes the call return its stop error with no
\* start request sent and no mode changed.
C27_StopErrorTolerance ==
    [][\A i \in 1..nInst :
          (call'.op \in ShapingCalls
              /\ (SetBandwidthLimit(i) \/ SetLatencyAndJitter(i) \/ SetPacketLoss(i)))
          => /\ fx'.btStop \in ToleratedStopErrors
                => (fx'.btStarts = 1 /\ call'.err \notin StopErrs)
             /\ fx'.btStop = "error"
                => (fx'.btStarts = 0 /\ call'.err \in StopErrs /\ shaping' = shaping)
             /\ call'.err \in StopErrs => fx'.btStop = "error"]_vars

\* A stop request answered "not ready" was followed by a successful start request.
C27_Witness ==
    /\ call = [op |-> "SetPacketLoss", err |-> "nil"]
    /\ fx.btStop = "notReady" /\ fx.btStarts = 1
    /\ \E i \in 1..nInst : "packetloss" \in shaping[i]

CloneCalls == {"Clone", "CloneWithName"}

\* C26: Clone, CloneWithName and CreateCustomResource on an instance that is not
\* Committed fail with a state-violation error and create neither an instance nor a
\* cluster object; a successful Clone or CloneWithName leaves its source as it was.
C26_CloneAndCustomResourceStates ==
    [][\A i \in 1..nInst :
          (call'.op \in CloneCalls \cup {"CreateCustomResource"}
              /\ (Clone(i) \/ CloneWithName(i) \/ CreateCustomResource(i)))
          => /\ instances[i].state # "Committed"
                => /\ call'.err \in StateViolationErrs
                   /\ nInst' = nInst /\ instances' = instances
                   /\ fx'.created = 0
             /\ (call'.op \in CloneCalls /\ call'.err = "nil")
                => (instances'[i] = instances[i] /\ nInst' > nInst)]_vars

\* The supporting resources deployed when the sidecars before the k-th have theirs.
DeployedUpTo(i, sidecars, k) ==
    resources \cup {i} \cup {sidecars[n] : n \in 1..(k - 1)}

\* C28: a StartWithoutWait from Committed deploys the supporting resources of the parent,
\* then those of every sidecar in sequence order, then the compute unit, and only then
\* sets the state to Started; a failure at a step leaves the later steps undone; the call
\* makes no readiness query.
C28_StartOrder ==
    [][\A i \in 1..nInst :
          (call'.op = "StartWithoutWait" /\ instances[i].state = "Committed"
              /\ StartWithoutWait(i))
          => LET sc == instances'[i].sidecars IN
             /\ call'.err = "ErrDeployingResourcesForInstance"
                => resources' = resources
             /\ call'.err = "ErrDeployingResourcesForSidecars"
                => \E k \in 1..Len(sc) : resources' = DeployedUpTo(i, sc, k)
             /\ call'.err \in {"ErrDeployingPodForInstance", "nil"}
                => resources' = DeployedUpTo(i, sc, Len(sc) + 1)
             /\ call'.err # "nil"
                => (replicaSets' = replicaSets /\ instances'[i].state = "Committed")
             /\ call'.err = "nil"
                => (replicaSets' = replicaSets \cup {i} /\ instances'[i].state = "Started")
             /\ wait' = wait /\ fx' = NoFx]_vars

\* The resources of the second of two sidecars failed to deploy: the parent and the
\* first sidecar have theirs, the second has none, and nothing was started.
C28_Witness ==
    /\ call = [op |-> "StartWithoutWait", err |-> "ErrDeployingResourcesForSidecars"]
    /\ \E i \in 1..nInst :
           /\ Len(instances[i].sidecars) = 2
           /\ instances[i].state = "Committed"
           /\ resources = {i, instances[i].sidecars[1]}
           /\ replicaSets = {}

\* C29: a Commit whose build context is unchanged succeeds without a push, without
\* reading or writing imageCache, and sets the image reference to that of the base image.
C29_UnchangedCommit ==
    [][\A i \in 1..nInst :
          (call'.op = "Commit" /\ instances[i].state = "Preparing"
              /\ instances[i].builderHash = 0 /\ Commit(i))
          => /\ call'.err = "nil"
             /\ pushes' = pushes
             /\ imageCache' = imageCache /\ fx'.cache = 0
             /\ instances'[i].imageName = instances[i].builderImage
             /\ instances'[i].state = "Committed"]_vars

\* An unchanged context was committed while the cache held the image of another one.
C29_Witness ==
    /\ call = [op |-> "Commit", err |-> "nil"] /\ fx.cache = 0
    /\ \E h \in Hashes : imageCache[h] # ""
    /\ \E i \in 1..nInst :
           /\ instances[i].state = "Committed" /\ instances[i].builderHash = 0
           /\ instances[i].imageName = instances[i].builderImage
           /\ instances[i].imageName \in Images

C31_StoppedWaitOutcomes ==
    /\ [][\A i \in 1..nInst :
             (call'.op = "WaitInstanceIsStopped" /\ instances[i].state # "Stopped"
                 /\ WaitInstanceIsStopped(i))
             => (call'.err = "ErrWaitingForInstanceStoppedNotAllowed" /\ wait' = wait)]_vars
    /\ [][(wait.at = "stopped" /\ WaitStoppedPoll)
             => /\ wait'.last = "running" <=> wait'.at = "stopped"
                /\ (wait'.at = "idle" /\ call'.err = "nil") => wait'.last = "notRunning"
                /\ wait'.last \in {"error", "runningError"}
                   => (wait'.at = "idle" /\ call'.err # "nil")]_vars

CommitFailures == {"ErrGettingImageRegistry", "ErrGeneratingImageHash", "ErrPushingImage"}

\* C33: a Commit that fails on the registry name, the hash or the push leaves the
\* instance Preparing with its image reference as it was and leaves imageCache as it
\* was, so that the Commit can be made again.
C33_FailedCommitKeepsState ==
    [][\A i \in 1..nInst :
          (call'.op = "Commit" /\ call'.err \in CommitFailures
              /\ instances[i].state = "Preparing" /\ Commit(i))
          => /\ instances'[i].state = "Preparing"
             /\ instances' = instances
             /\ imageCache' = imageCache
             /\ pushes' = pushes]_vars

\* The push of a changed context failed; the instance is Preparing and nothing is cached.
C33_Witness ==
    /\ call = [op |-> "Commit", err |-> "ErrPushingImage"]
    /\ \E i \in 1..nInst :
           /\ instances[i].state = "Preparing" /\ instances[i].builderHash # 0
           /\ instances[i].imageName = ""
           /\ imageCache[instances[i].builderHash] = ""

\* C34: a SetGitRepo that returns an error, the failure of the image build included,
\* leaves every instance in the state it had before the call.
C34_FailedSetGitRepoKeepsState ==
    [][\A i \in 1..nInst :
          (call'.op = "SetGitRepo" /\ call'.err # "nil" /\ SetGitRepo(i))
          => \A j \in Ids : instances'[j].state = instances[j].state]_vars

\* The sidecars of i built from the reference image.
InjectedSidecars(i, image) ==
    {k \in 1..Len(instances[i].sidecars) :
        instances[instances[i].sidecars[k]].imageName = image}

\* C35: a StartWithoutWait that returns an error leaves every instance in the state it
\* had and leaves the sidecar sequence of the instance as it was; so no instance ever
\* has more than one auto-injected sidecar of a kind.
C35_FailedStartKeepsSidecars ==
    /\ [][\A i \in 1..nInst :
             (call'.op = "StartWithoutWait" /\ call'.err # "nil" /\ StartWithoutWait(i))
             => /\ \A j \in Ids : instances'[j].state = instances[j].state
                /\ instances'[i].sidecars = instances[i].sidecars]_vars
    /\ [](\A i \in 1..nInst :
             /\ Cardinality(InjectedSidecars(i, BitTwisterImage)) <= 1
             /\ Cardinality(InjectedSidecars(i, OtelCollectorImage)) <= 1)

\* C36: WaitForService returns success only from a poll that found the service ready and
\* its endpoint reachable; a poll that finds it not ready or unreachable is followed by
\* another; a failed readiness or endpoint query returns its error at once; and a wait
\* whose context is done returns ErrTimeoutWaitingForServiceReady.
C36_ServiceWaitOutcomes ==
    [][wait.at = "service" =>
          /\ (wait'.at = "idle" /\ call'.err = "nil")
             => (wait.ticked /\ wait'.last = "reachable")
          /\ (wait.ticked /\ ~wait'.ticked)
             => /\ wait'.last \in {"notReady", "unreachable"} => wait'.at = "service"
                /\ wait'.last = "readyError"
                   => (wait'.at = "idle" /\ call'.err = "ErrCheckingServiceReady")
                /\ wait'.last = "endpointError"
                   => (wait'.at = "idle" /\ call'.err = "ErrGettingServiceEndpoint")
          /\ (wait.cancelled /\ wait'.at = "idle")
             => call'.err = "ErrTimeoutWaitingForServiceReady"]_vars

\* What CreateService and PatchService do with the given client namespace, service name
\* and port lists: creates and updates are the requests the call may issue.
ServiceOutcome(namespace, name, portsTCP, portsUDP, creates, updates) ==
    IF namespace = "" \/ name = "" \/ (portsTCP = <<>> /\ portsUDP = <<>>)
    THEN call'.err # "nil" /\ fx'.svcCreates = 0 /\ fx'.svcUpdates = 0 /\ fx'.cluster = 0
    ELSE LET ports == fx'.svc.ports IN
         /\ fx'.svcCreates = creates /\ fx'.svcUpdates = updates
         /\ Len(ports) = Len(portsTCP) + Len(portsUDP)
         /\ \A k \in 1..Len(portsTCP) :
                ports[k].protocol = "TCP" /\ ports[k].name = <<"tcp", portsTCP[k]>>
         /\ \A k \in 1..Len(portsUDP) :
                /\ ports[Len(portsTCP) + k].protocol = "UDP"
                /\ ports[Len(portsTCP) + k].name = <<"udp", portsUDP[k]>>

\* C37: CreateService and PatchService return an error without a create or update
\* request when the namespace or the service name is empty or both port lists are;
\* otherwise they submit, in one request, a Service with one entry per TCP port followed
\* by one per UDP port, in the order given.
C37_ServicePorts ==
    [][\A namespace \in Namespaces, name \in ServiceNames, portsTCP \in PortLists,
         portsUDP \in PortLists :
          /\ (call'.op = "CreateService"
                /\ CreateService(namespace, name, portsTCP, portsUDP))
             => ServiceOutcome(namespace, name, portsTCP, portsUDP, 1, 0)
          /\ (call'.op = "PatchService"
                /\ PatchService(namespace, name, portsTCP, portsUDP))
             => ServiceOutcome(namespace, name, portsTCP, portsUDP, 0, 1)]_vars

\* A Service with two TCP ports and one UDP port was created.
C37_Witness ==
    /\ call = [op |-> "CreateService", err |-> "nil"]
    /\ fx.svcCreates = 1
    /\ Len(fx.svc.ports) = 3
    /\ fx.svc.ports[1].name = <<"tcp", 443>>
    /\ fx.svc.ports[2].name = <<"tcp", 80>>
    /\ fx.svc.ports[3].name = <<"udp", 80>>

====
